---- MODULE Spec2Model ----
(***************************************************************************)
(* Verification model of fragment_hotspot_maps.py.                         *)
(*                                                                         *)
(* Part 1: HotspotResults.best_continuous_volume and its helpers           *)
(*         (_single_grid, _island_by_volume, _count_non_zero_alt,          *)
(*         _get_grid_by_volume).                                          *)
(*                                                                         *)
(* Grids are modelled on one frame, along the x axis (ny = nz = 1): a grid *)
(* is a function from the cell index to a non-negative integer score.      *)
(* Scores are multiples of ValueStep.  A score cutoff is a real number; it *)
(* is kept doubled (cutoff2 = 2c) so that the non-integer cutoffs the      *)
(* minimiser returns (an odd cutoff2 stands for any point of the open      *)
(* interval between two neighbouring breakpoints) and the exact fallback   *)
(* value 1 (cutoff2 = 2) are both integers, and both v > c and v >= c are  *)
(* computed as the code computes them.                                     *)
(*                                                                         *)
(* Part 2: Hotspots._Sampler (sample and the methods it calls) with the    *)
(*         _SampleGrid objects it samples and writes.                      *)
(*                                                                         *)
(* The sampler is modelled along the x axis as well.  A coordinate is an   *)
(* integer number of eighths of an Angstrom, so that the grid spacing 0.5  *)
(* is gs = 4 units and points between cell centres, and grid origins that  *)
(* are not a multiple of the spacing, exist.  A pose score is a geometric  *)
(* mean prod ^ (1 / n): it is kept exactly, as the pair <<prod, n>>, and   *)
(* compared by cross powers.  A rotation is a step through the projections *)
(* of the molecule's arm on the x axis.                                    *)
(***************************************************************************)
EXTENDS Integers, Sequences, FiniteSets, TLC

\* ---------------------------------------------------------------- bounds
NumCells == 4
MaxVal == 2
MaxN == 3
ValueStep == 5
MaxRot == 2
MaxPoses == 3
MaxSteps == 2
MaxLines == 2
MaxLocations == 2
MaxFeatures == 2
MaxIslands == 2
MaxCoordinate == 4
MaxTolerance == 2
RandomSteps == 2

\* ------------------------------------------------------ program constants
\* upper end of the bracket of optimize.fminbound(..., 0, 30, ...)
UpperBound == 30
\* "if score_cutoff >= 29"
SaturationCutoff == 29
\* "score_cutoff = 1"
FallbackCutoff == 1
\* "return 9999" of _count_non_zero
NoIslandCount == 9999
\* first point optimize.fminbound evaluates, doubled and truncated:
\* 0 + 0.381966 * (30 - 0) = 11.459
FirstProbe2 == 22
\* "gs = 0.5", in coordinate units of 0.125
gs == 4
\* _Sampler.Settings
apolar_translation_threshold == 15
polar_translation_threshold == 15
\* "if score < 5: continue"
MinScore == 5
\* "if score > 14:"
DisplayScore == 14
\* "if len(sampled_probes) > 10000"
MaxProbes == 10000
max_workers == 5
DefaultPadding == 1
distance_cutoff == 8
drug_volume == 300
CellsPerVolume == 8
MinNearScore == 2
TwiceMaxRadius == 19
ClashBurial == 1
FavourablePropensity == 2
\* "weight = int(6 / len(...))"
CarbonWeight == 6
\* the value a point outside the grid has no value for: "except RuntimeError"
RuntimeError == -1

VARIABLES
    keys,            \* self.super_grids.keys(): the channels, in dict order
    super_grids,     \* self.super_grids: channel -> grid
    pocket_mask,     \* <<>> (False) or <<grid>>: 1 at cells to be ignored
    num_gp,          \* int(float(volume) / 0.125)
    pc,              \* "start" before the call, "done" after it
    masked_grids,    \* result of _single_grid()
    sum_g,           \* the composite grid handed to _get_grid_by_volume
    score_cutoff,    \* the solved cutoff, doubled
    tmp_g,           \* the island chosen at score_cutoff: <<lo, hi>> or <<>> (None)
    new_cutoff,      \* the lowest kept value of the ranking (-1: not computed)
    kept_points,     \* the cells the ranking kept
    second_mask,     \* the mask returned by _get_grid_by_volume
    bcv_grids,       \* bcv_hr.super_grids
    remaining_grids  \* remaining_hr.super_grids

bcvVars == <<keys, super_grids, pocket_mask, num_gp, pc, masked_grids, sum_g,
             score_cutoff, tmp_g, new_cutoff, kept_points, second_mask,
             bcv_grids,
             remaining_grids>>

VARIABLES
    names,                  \* the names of self.grids, in the order given
    sample_grids,           \* self.grids: name -> the weighted map sampled
    origin,                 \* bounding_box[0] of the grids (one frame)
    atoms,                  \* molecule.atoms
    orientation,            \* the molecule's current orientation
    probe_name,             \* the argument probe of sample
    nrotations,             \* settings.nrotations
    polar_contributions,    \* settings.polar_contributions
    spc,                    \* position in _Sampler.sample
    priority_atom,          \* id of the anchor atom (0: not chosen yet)
    translate_points,       \* the points the anchor is translated to
    quaternions,            \* the list generate_rand_quaternions returned
    qi,                     \* index of the next quaternion
    ti,                     \* index of the next translation point
    active_atoms,           \* g._active_atoms of self.grids (atom ids)
    probe_active_atoms,     \* g._active_atoms of self.probe_grids
    active_coordinates_dic, \* result of get_active_coordinates()
    probe_grids,            \* self.probe_grids: name -> output grid of scores
    high_scoring_probes,    \* dict: score -> list of placed copies
    sampled_probes,         \* the list sample returns
    processed,              \* history: the poses scored so far
    scored                  \* history: the loop places <<rotation, target>> scored

samplerVars == <<names, sample_grids, origin, atoms, orientation, probe_name,
                 nrotations, polar_contributions, spc, priority_atom,
                 translate_points, quaternions, qi, ti, active_atoms,
                 probe_active_atoms, active_coordinates_dic, probe_grids,
                 high_scoring_probes, sampled_probes, processed, scored>>

VARIABLES
    pending,                \* poses update_out_grids has yet to be given
    applied                 \* poses update_out_grids has been given

updVars == <<pending, applied>>

VARIABLES
    quat_n,                 \* settings.nrotations of generate_rand_quaternions
    quat_i,                 \* its counter i
    quat_list,              \* its list quaternions
    quat_pc                 \* "loop", "returned" or "error"

quatVars == <<quat_n, quat_i, quat_list, quat_pc>>

VARIABLES
    job_order,              \* _run_ss: the probes in the order of args
    job_pc,                 \* the position of the job of each probe
    cwd,                    \* the working directory of the process
    saved_dir,              \* the directory the PushDir of each job goes back to
    files,                  \* the paths that exist
    writes,                 \* the paths the jobs have written, with the job
    reads,                  \* the paths Grid.from_file was called with
    disturbed,              \* jobs whose directory another job changed
    job_outcome,            \* what the job of each probe returned or raised
    gather_i,               \* list(results): the place in the results
    delivered,              \* list(results): the results taken so far
    caller_pc               \* "gathering", "returned" or "raised"

ssVars == <<job_order, job_pc, cwd, saved_dir, files, writes, reads, disturbed,
            job_outcome, gather_i, delivered, caller_pc>>

\* the variables of Parts 1 to 6
coreVars == <<bcvVars, samplerVars, updVars, quatVars, ssVars>>

VARIABLES
    cg_g1,                  \* _common_grid: the argument g1
    cg_g2,                  \* the argument g2
    cg_padding,             \* the argument padding
    cg_out,                 \* the returned pair (out1, out2)
    cg_pc                   \* "call" or "returned"

cgVars == <<cg_g1, cg_g2, cg_padding, cg_out, cg_pc>>

VARIABLES
    cl_g,                   \* correct_ligsite: the argument g, the propensity
    cl_l,                   \* the argument l, the burial
    cl_self,                \* whether the reductions count the cell itself
    cl_out,                 \* the returned grid corrected
    cl_pc                   \* "call" or "returned"

clVars == <<cl_g, cl_l, cl_self, cl_out, cl_pc>>

VARIABLES
    gh_lines,               \* _GhecomResult.update_grid: the lines of the file
    gh_origin,              \* the origin of self.grid
    gh_grid,                \* the values of self.grid, times 2
    gh_i,                   \* the place of the loop in the lines
    gh_pc                   \* "loop" or "returned"

ghVars == <<gh_lines, gh_origin, gh_grid, gh_i, gh_pc>>

VARIABLES
    bf_locations,           \* _HotspotBuilder: self.locations
    bf_features,            \* self.features
    assigned_features,      \* the list assigned_features of each location
    bf_i,                   \* construct: the place of the loop in the features
    bf_pc                   \* "loop", "returned" or "error"

bfVars == <<bf_locations, bf_features, assigned_features, bf_i, bf_pc>>

VARIABLES
    eh_pharmacophore,       \* extract_hotspots: the argument pharmacophore
    hrs,                    \* the list hrs
    eh_i,                   \* the place of the loop in build.locations
    eh_pc                   \* "build", "loop" or "returned"

ehVars == <<eh_pharmacophore, hrs, eh_i, eh_pc>>

VARIABLES
    ds_islands,             \* drug_sized: buriedness.islands(threshold=5), in order
    ds_box,                 \* the bounding box of self.super_grids["apolar"]
    ds_result,              \* what drug_sized returned
    ds_pc                   \* "call" or "returned"

dsVars == <<ds_islands, ds_box, ds_result, ds_pc>>

VARIABLES
    ns_g,                   \* _get_near_score: self.super_grids[atom_type], values in units of 0.005
    ns_origin,              \* its bounding_box[0]
    ns_coordinates,         \* the point asked for
    ns_tolerance,           \* the tolerance asked for
    ns_reads,               \* the indices passed to g.value
    ns_result,              \* what _get_near_score returned
    ns_pc                   \* "call" or "returned"

nsVars == <<ns_g, ns_origin, ns_coordinates, ns_tolerance, ns_reads, ns_result, ns_pc>>

nsOthers == <<coreVars, cgVars, clVars, ghVars, bfVars, ehVars, dsVars>>
dsOthers == <<coreVars, cgVars, clVars, ghVars, bfVars, ehVars, nsVars>>
ehOthers == <<coreVars, cgVars, clVars, ghVars, bfVars, dsVars, nsVars>>
bfOthers == <<coreVars, cgVars, clVars, ghVars, ehVars, dsVars, nsVars>>
ghOthers == <<coreVars, cgVars, clVars, bfVars, ehVars, dsVars, nsVars>>
clOthers == <<coreVars, cgVars, ghVars, bfVars, ehVars, dsVars, nsVars>>
cgOthers == <<coreVars, clVars, ghVars, bfVars, ehVars, dsVars, nsVars>>
\* the variables of Parts 7 and later
fnVars == <<cgVars, clVars, ghVars, bfVars, ehVars, dsVars, nsVars>>

auxVars == <<updVars, quatVars, ssVars, fnVars>>

vars == <<bcvVars, samplerVars, auxVars>>

Cells == 0 .. (NumCells - 1)
Values == { ValueStep * k : k \in 0 .. MaxVal }
ZeroGrid == [i \in Cells |-> 0]

Max2(a, b) == IF a >= b THEN a ELSE b
Abs(a) == IF a >= 0 THEN a ELSE 0 - a
Range(f) == { f[x] : x \in DOMAIN f }

\* ------------------------------------------------------------------ Grid
\* Grid.islands(threshold): the maximal connected sets of cells whose value
\* exceeds the threshold; along one axis, the maximal runs <<lo, hi>>.
RECURSIVE RunEnd(_, _)
RunEnd(above, i) == IF (i + 1) \in above THEN RunEnd(above, i + 1) ELSE i

Islands(g, cutoff2) ==
    LET above == { i \in Cells : 2 * g[i] > cutoff2 }
    IN  { <<lo, RunEnd(above, lo)>> : lo \in { i \in above : (i - 1) \notin above } }

IslandCells(isl) == IF isl = <<>> THEN {} ELSE isl[1] .. isl[2]

\* the island as a grid on the common frame (non-member cells are zero):
\* top_g of _common_grid(sg, tmp_g, padding=0)
IslandGrid(g, isl) == [i \in Cells |-> IF i \in IslandCells(isl) THEN g[i] ELSE 0]

RECURSIVE SumOver(_, _)
SumOver(g, S) ==
    IF S = {} THEN 0
    ELSE LET i == CHOOSE x \in S : TRUE IN g[i] + SumOver(g, S \ {i})

\* ------------------------------------------------ HotspotResults helpers
\* "other_grids = [self.super_grids[p] for p in self.super_grids.keys() if p != probe]"
other_grids(ks, probe) == SelectSeq(ks, LAMBDA p : p # probe)

\* _single_grid: "mg = g * ((g > other_grids[0]) & (g > other_grids[1]))"
single_grid(ks, grids) ==
    [probe \in Range(ks) |->
        LET g  == grids[probe]
            og == other_grids(ks, probe)
        IN  [i \in Cells |->
                IF g[i] > grids[og[1]][i] /\ g[i] > grids[og[2]][i]
                THEN g[i] ELSE 0]]

\* "sum_g = all_g[0].copy(); for g in all_g[1:]: sum_g += g"
RECURSIVE SumChannels(_, _, _)
SumChannels(ks, grids, i) ==
    IF ks = <<>> THEN 0
    ELSE grids[Head(ks)][i] + SumChannels(Tail(ks), grids, i)

sum_grids(ks, grids) == [i \in Cells |-> SumChannels(ks, grids, i)]

\* the slip of leaving the pocket mask out
apply_pocket_mask_skipped(sg, pm) == sg

\* "if pocket_mask: ... sum_g = com_sum_grid * (com_pocket_mask < 1)"
apply_pocket_mask(sg, pm) ==
    IF pm = <<>> THEN sg
    ELSE [i \in Cells |-> IF pm[1][i] < 1 THEN sg[i] ELSE 0]

\* "island_points = [g.value(i, j, k) ... if g.value(i, j, k) >= score_cutoff]"
island_points(sg, isl, cutoff2) ==
    { i \in IslandCells(isl) : 2 * sg[i] >= cutoff2 }

island_total(sg, isl, cutoff2) == SumOver(sg, island_points(sg, isl, cutoff2))

\* _island_by_volume: the islands are entered into a dict keyed by their
\* total, so of several islands with one total the last entered stays; the
\* island of the greatest total is returned, None (<<>>) without islands.
\* "top_score = sorted(island_by_total.keys(), reverse=True)[0]".
\* rev tells in which order Grid.islands lists the islands.
island_by_volume(sg, cutoff2, rev) ==
    LET isls == Islands(sg, cutoff2)
        tots == { island_total(sg, r, cutoff2) : r \in isls }
        best == CHOOSE t \in tots : \A u \in tots : u <= t
        top  == { r \in isls : island_total(sg, r, cutoff2) = best }
    IN  IF isls = {} THEN <<>>
        ELSE IF rev THEN CHOOSE r \in top : \A q \in top : r[1] <= q[1]
        ELSE CHOOSE r \in top : \A q \in top : r[1] >= q[1]

\* _count_non_zero: the objective handed to optimize.fminbound
count_non_zero(sg, n, cutoff2, rev) ==
    LET t == island_by_volume(sg, cutoff2, rev)
    IN  IF t = <<>> THEN NoIslandCount
        ELSE Abs(n - Cardinality(island_points(sg, t, cutoff2)))

\* _count_non_zero_alt
count_non_zero_alt(sg, n, cutoff2, rev) ==
    LET t == island_by_volume(sg, cutoff2, rev)
    IN  IF t = <<>> THEN 0
        ELSE n - Cardinality(island_points(sg, t, cutoff2))

\* The cutoffs optimize.fminbound can return on [0, 30]: the objective is
\* piecewise constant with its breaks at the grid's values, so the search
\* sees only which interval between two breaks a cutoff lies in; one cutoff
\* per interval (just above its lower break), one for [29, 30).
Breaks2 ==
    { 2 * ValueStep * k : k \in 0 .. (UpperBound \div ValueStep) }
        \cup { 2 * SaturationCutoff }

SolverCutoffs == { b + 1 : b \in { x \in Breaks2 : x + 1 < 2 * UpperBound } }

IntervalOf(c2) == CHOOSE s \in SolverCutoffs :
    /\ s <= c2
    /\ \A t \in SolverCutoffs : t <= c2 => t <= s

\* fminbound returns the best point it has evaluated, and it evaluates
\* 11.459 first: its result is never worse than that point.
fminbound(sg, n, rev) ==
    LET first == count_non_zero(sg, n, IntervalOf(FirstProbe2), rev)
    IN  { c2 \in SolverCutoffs : count_non_zero(sg, n, c2, rev) <= first }

\* "score_cutoff -= 0.025": the cutoff stays in its interval or, when it lay
\* within 0.025 of the interval's lower break, enters the interval below
\* (-1: a cutoff below zero).
Lowered(c2) ==
    IF \E s \in SolverCutoffs : s < c2
    THEN CHOOSE s \in SolverCutoffs :
            s < c2 /\ \A t \in SolverCutoffs : t < c2 => t <= s
    ELSE 0 - 1

\* "if score_cutoff >= 29: score_cutoff = 1"
saturated(c2) == IF c2 >= 2 * SaturationCutoff THEN 2 * FallbackCutoff ELSE c2

\* _get_grid_by_volume, the ranking: "for score in scores: kept_points +=
\* all_points[score]; new_cutoff = score; if len(kept_points) >= num_gp: break"
\* over the values c_sg has in the island's box, in descending order.
RECURSIVE ranking(_, _, _, _, _)
ranking(c_sg, box, scores, kept, n) ==
    LET score  == CHOOSE s \in scores : \A t \in scores : t <= s
        kept2  == kept \cup { i \in box : c_sg[i] = score }
        rest   == scores \ {score}
    IN  IF Cardinality(kept2) >= n \/ rest = {}
        THEN [new_cutoff |-> score, kept_points |-> kept2]
        ELSE ranking(c_sg, box, rest, kept2, n)

\* a comparison of a grid with a number: the grid of 1 (true) and 0 (false)
GreaterThan(g, cutoff) == [i \in Cells |-> IF g[i] > cutoff THEN 1 ELSE 0]

\* "mask = (c_sg > new_cutoff)": the slip of comparing the whole composite
volume_mask_of_composite(sg, t, cutoff) == GreaterThan(sg, cutoff)

\* "c_sg, top_g = self._common_grid(sg, tmp_g, padding=0) ...
\*  mask = (top_g > new_cutoff)"
volume_mask(sg, t, cutoff) == GreaterThan(IslandGrid(sg, t), cutoff)

\* "tmp_g = sg": the slip of returning the composite for an empty selection
empty_selection_unzeroed(sg) == sg

\* "tmp_g = sg * 0"
empty_selection(sg) == [i \in Cells |-> sg[i] * 0]

\* _get_grid_by_volume(sg, volume) for the cutoff c2 fminbound returned
get_grid_by_volume(sg, n, c2, rev, crossed) ==
    LET c_adj  == IF count_non_zero_alt(sg, n, c2, rev) < 0 /\ crossed
                  THEN Lowered(c2) ELSE c2
        cutoff == saturated(c_adj)
        t      == island_by_volume(sg, cutoff, rev)
    IN  IF t = <<>>
        THEN [score_cutoff |-> cutoff, tmp_g |-> t, new_cutoff |-> 0 - 1,
              kept_points |-> {}, mask |-> empty_selection(sg)]
        ELSE LET box == IslandCells(t)
                 rk  == ranking(sg, box, { sg[i] : i \in box }, {}, n)
             IN  [score_cutoff |-> cutoff, tmp_g |-> t,
                  new_cutoff |-> rk.new_cutoff, kept_points |-> rk.kept_points,
                  mask |-> volume_mask(sg, t, rk.new_cutoff)]

\* "out_g = (c_g * c_second_mask)": the mask applied to the original grids
processed_grids_of_original(ks, grids, mgs, mask) ==
    [probe \in Range(ks) |-> [i \in Cells |-> grids[probe][i] * mask[i]]]

\* "mg = masked_grids[probe]; ... out_g = (c_mg * c_second_mask)"
processed_grids(ks, grids, mgs, mask) ==
    [probe \in Range(ks) |-> [i \in Cells |-> mgs[probe][i] * mask[i]]]

\* "diff_g = mg - bcv_hr.super_grids[probe]": the slip of subtracting from
\* the single-owner grid
remaining_of_masked(ks, grids, mgs, bcv) ==
    [probe \in Range(ks) |-> [i \in Cells |-> mgs[probe][i] - bcv[probe][i]]]

\* "diff_g = g - bcv_hr.super_grids[probe]"
remaining(ks, grids, mgs, bcv) ==
    [probe \in Range(ks) |-> [i \in Cells |-> grids[probe][i] - bcv[probe][i]]]

\* ------------------------------------------------------------ the inputs
\* probe_types of _calc_hotspots, without and with charged probes
Keys3 == <<"apolar", "donor", "acceptor">>
Keys5 == <<"apolar", "donor", "acceptor", "negative", "positive">>
Keys5Rev == <<"positive", "negative", "acceptor", "donor", "apolar">>

Blank(ks) == [probe \in Range(ks) |-> ZeroGrid]

\* The results handed to best_continuous_volume: the score profile vals laid
\* over the channels in one of four ways.
\*   the winner changes from cell to cell and a second channel scores one
\*   step below it
LayoutRunnerUp(vals) ==
    [keys |-> Keys3,
     grids |-> [Blank(Keys3) EXCEPT
        !["apolar"]   = [i \in Cells |-> IF i % 2 = 0 THEN vals[i] ELSE 0],
        !["donor"]    = [i \in Cells |-> IF i % 2 = 1 THEN vals[i]
                                         ELSE IF vals[i] > 0 THEN vals[i] - ValueStep ELSE 0],
        !["acceptor"] = [i \in Cells |-> IF i % 2 = 1 /\ vals[i] > 0
                                         THEN vals[i] - ValueStep ELSE 0]]]
\*   two channels tie at cell 0
LayoutTie(vals) ==
    [keys |-> Keys3,
     grids |-> [Blank(Keys3) EXCEPT
        !["apolar"]   = [i \in Cells |-> IF i = 0 THEN vals[i] ELSE 0],
        !["donor"]    = [i \in Cells |-> IF i = 0 THEN vals[i] ELSE 0],
        !["acceptor"] = [i \in Cells |-> IF i = 0 THEN 0 ELSE vals[i]]]]
\*   five channels, the charged channel scoring highest at cell 0
LayoutFive(vals, ks) ==
    [keys |-> ks,
     grids |-> [Blank(ks) EXCEPT
        !["apolar"]   = vals,
        !["negative"] = [i \in Cells |-> IF i = 0 THEN ValueStep * MaxVal ELSE 0]]]

InputResults ==
    UNION { { LayoutRunnerUp(vals), LayoutTie(vals),
              LayoutFive(vals, Keys5), LayoutFive(vals, Keys5Rev) } :
            vals \in [Cells -> Values] }

\* pocket_mask: False, or a grid with 1 at one cell to be ignored
PocketMasks ==
    { <<>> } \cup { << [i \in Cells |-> IF i = m THEN 1 ELSE 0] >> : m \in {1} }

BcvInit ==
    /\ \E r \in InputResults : keys = r.keys /\ super_grids = r.grids
    /\ pocket_mask \in PocketMasks
    /\ num_gp \in 0 .. MaxN
    /\ pc = "start"
    /\ masked_grids = <<>>
    /\ sum_g = ZeroGrid
    /\ score_cutoff = 0
    /\ tmp_g = <<>>
    /\ new_cutoff = 0 - 1
    /\ kept_points = {}
    /\ second_mask = ZeroGrid
    /\ bcv_grids = <<>>
    /\ remaining_grids = <<>>

\* HotspotResults.best_continuous_volume(volume, pocket_mask), in the three
\* stages of its body.
\* "masked_grids = self._single_grid() ... sum_g = com_sum_grid * (com_pocket_mask < 1)"
bcv_sum ==
    /\ pc = "start"
    /\ masked_grids' = single_grid(keys, super_grids)
    /\ sum_g' = apply_pocket_mask(sum_grids(keys, masked_grids'), pocket_mask)
    /\ pc' = "summed"
    /\ UNCHANGED <<keys, super_grids, pocket_mask, num_gp, score_cutoff, tmp_g,
                   new_cutoff, kept_points, second_mask, bcv_grids, remaining_grids>>
    /\ UNCHANGED <<samplerVars, auxVars>>

\* "second_mask = self._get_grid_by_volume(sum_g, volume)"
bcv_select ==
    /\ pc = "summed"
    /\ \E rev \in BOOLEAN :
       \E c2 \in fminbound(sum_g, num_gp, rev), crossed \in BOOLEAN :
       \E sel \in { get_grid_by_volume(sum_g, num_gp, c2, rev, crossed) } :
               /\ score_cutoff' = sel.score_cutoff
               /\ tmp_g' = sel.tmp_g
               /\ new_cutoff' = sel.new_cutoff
               /\ kept_points' = sel.kept_points
               /\ second_mask' = sel.mask
    /\ pc' = "selected"
    /\ UNCHANGED <<keys, super_grids, pocket_mask, num_gp, masked_grids, sum_g,
                   bcv_grids, remaining_grids>>
    /\ UNCHANGED <<samplerVars, auxVars>>

\* "for probe, g in self.super_grids.items(): ... return bcv_hr, remaining_hr"
bcv_results ==
    /\ pc = "selected"
    /\ bcv_grids' = processed_grids(keys, super_grids, masked_grids, second_mask)
    /\ remaining_grids' = remaining(keys, super_grids, masked_grids, bcv_grids')
    /\ pc' = "done"
    /\ UNCHANGED <<keys, super_grids, pocket_mask, num_gp, masked_grids, sum_g,
                   score_cutoff, tmp_g, new_cutoff, kept_points, second_mask>>
    /\ UNCHANGED <<samplerVars, auxVars>>

\* ------------------------------------------------- Part 2: Hotspots._Sampler
\* _HotspotsHelper._indices_to_point: "ox + float(i) * gs"
indices_to_point(idx, org) == org + idx * gs

\* round(x / gs) of Python 2: to the nearest integer, halves away from zero
Round(x) ==
    IF x >= 0 THEN (2 * x + gs) \div (2 * gs)
    ELSE 0 - ((2 * (0 - x) + gs) \div (2 * gs))

\* _HotspotsHelper._point_to_indices: the point and the origin are rounded
\* separately, "int(rx - ox)"
point_to_indices(p, org) == Round(p) - Round(org)

\* _SampleGrid.add_coordinates
add_coordinates(coord, trans) == coord + trans

\* the grid's far corner: the centre of its last cell
far_corner(org) == indices_to_point(NumCells - 1, org)

\* Grid.value(point) of the grid library: the value of the nearest cell, and
\* RuntimeError for a point outside the grid
value_at_point(grid, org, p) ==
    IF p < org \/ p > far_corner(org) THEN RuntimeError
    ELSE grid[(2 * (p - org) + gs) \div (2 * gs)]

\* _SampleGrid.sample: the values at the translated coordinates, [0] when
\* one of them is outside the grid
grid_sample(grid, org, coordinate_list, trans) ==
    LET values == [k \in 1 .. Len(coordinate_list) |->
                     value_at_point(grid, org,
                                    add_coordinates(coordinate_list[k], trans))]
    IN IF \E k \in DOMAIN values : values[k] = RuntimeError THEN <<0>>
       ELSE values

\* an atom of the probe molecule; arm is its place on the molecule's axis
Atom(id, sym, don, acc, chg, arm) ==
    [id |-> id, atomic_symbol |-> sym, is_donor |-> don, is_acceptor |-> acc,
     formal_charge |-> chg, arm |-> arm]

\* the atom predicates of _SampleGrid
is_donor(a) == a.is_donor /\ a.formal_charge = 0
is_acceptor(a) == a.is_acceptor /\ a.formal_charge = 0
is_apolar(a) ==
    ~(a.is_donor \/ a.is_acceptor \/ a.formal_charge # 0 \/ a.atomic_symbol = "Xe")
is_positive(a) == a.formal_charge > 0
is_negative(a) == a.formal_charge < 0

\* the predicate _get_out_maps gives the _SampleGrid of each name
atom_predicate(name, a) ==
    CASE name = "donor" -> is_donor(a)
      [] name = "acceptor" -> is_acceptor(a)
      [] name = "apolar" -> is_apolar(a)
      [] name = "negative" -> is_negative(a)
      [] name = "positive" -> is_positive(a)

\* a _SampleGrid without the attribute _active_atoms
NoAttr == <<0>>

AtomIds(ats) == [k \in 1 .. Len(ats) |-> ats[k].id]
AtomById(ats, id) == ats[CHOOSE k \in DOMAIN ats : ats[k].id = id]

\* _SampleGrid.set_molecule: the new value of _active_atoms
set_molecule(name, ats, polar_contribution, current) ==
    IF /\ name = "apolar"
       /\ ~polar_contribution
       /\ \E k \in DOMAIN ats : ats[k].is_donor \/ ats[k].is_acceptor
    THEN <<>>
    ELSE IF current = NoAttr
         THEN AtomIds(SelectSeq(ats, LAMBDA a : atom_predicate(name, a)))
         ELSE current

\* molecule.remove_hydrogens()
remove_hydrogens(ats) == SelectSeq(ats, LAMBDA a : a.atomic_symbol # "H")

\* the x coordinate of the end of the molecule's arm in each orientation
Projection == <<4, 1, -3, -4>>
Quaternions == {1, 2}

\* a.coordinates
atom_coordinates(a, o) == a.arm * Projection[o]

\* molecule.apply_quaternion(q): rotations compose
apply_quaternion(o, q) == ((o - 1 + q) % Len(Projection)) + 1

\* _Sampler.generate_rand_quaternions: the lists it can return
generate_rand_quaternions(nrot) ==
    IF nrot > 1 THEN [1 .. nrot -> Quaternions] ELSE { <<>> }

\* _HotspotsHelper._get_distance from the centre of geometry, times the
\* number of atoms
centre_distance(ats, a, o) ==
    Abs(Len(ats) * atom_coordinates(a, o)
        - SumOver([k \in 1 .. Len(ats) |-> atom_coordinates(ats[k], o)],
                  1 .. Len(ats)))

\* _Sampler.get_priority_atom: atom_by_distance keeps the last atom of each
\* distance, and "sorted(atom_by_distance.keys())[0]" takes the first key
get_priority_atom(ats, o) ==
    LET polar_atoms == SelectSeq(ats, LAMBDA a : a.is_donor \/ a.is_acceptor)
        cands == IF Len(polar_atoms) > 0 THEN polar_atoms ELSE ats
        d(k) == centre_distance(ats, cands[k], o)
        first == CHOOSE k \in DOMAIN cands : \A j \in DOMAIN cands : d(k) <= d(j)
        last == CHOOSE k \in DOMAIN cands :
                    /\ d(k) = d(first)
                    /\ \A j \in DOMAIN cands : d(j) = d(first) => j <= k
        pa == cands[last]
    IN [atom |-> pa,
        pa_type |-> IF pa.formal_charge # 0
                    THEN (IF pa.formal_charge < 0 THEN "negative" ELSE "positive")
                    ELSE IF pa.is_acceptor THEN "acceptor"
                    ELSE IF pa.is_donor THEN "donor"
                    ELSE "apolar"]

\* the points of one island: "if g.value(i, j, k) >= translation_threshold"
island_maxima(grid, org, isl, threshold) ==
    LET box == indices_to_point(isl[1], org)
        hot == SelectSeq([k \in 1 .. (isl[2] - isl[1] + 1) |-> k - 1],
                         LAMBDA idx : grid[isl[1] + idx] >= threshold)
    IN [k \in 1 .. Len(hot) |-> indices_to_point(hot[k], box)]

RECURSIVE collect_maxima(_, _, _, _, _)
collect_maxima(grid, org, isls, threshold, rev) ==
    IF isls = {} THEN <<>>
    ELSE LET isl == IF rev
                    THEN CHOOSE r \in isls : \A q \in isls : r[1] >= q[1]
                    ELSE CHOOSE r \in isls : \A q \in isls : r[1] <= q[1]
         IN island_maxima(grid, org, isl, threshold)
            \o collect_maxima(grid, org, isls \ {isl}, threshold, rev)

\* _Sampler.get_translation_points; rev: the order of wg.grid.islands()
get_translation_points(grid_dic, org, priority_atom_type, rev) ==
    LET translation_threshold ==
            IF priority_atom_type = "apolar" THEN apolar_translation_threshold
            ELSE polar_translation_threshold
        wg == grid_dic[priority_atom_type]
    IN collect_maxima(wg, org, Islands(wg, 2 * translation_threshold),
                      translation_threshold, rev)

\* _Sampler.get_active_coordinates
get_active_coordinates(ks, actives, ats, o) ==
    [name \in Range(ks) |->
        [k \in 1 .. Len(actives[name]) |->
            atom_coordinates(AtomById(ats, actives[name][k]), o)]]

RECURSIVE Product(_)
Product(s) == IF s = <<>> THEN 1 ELSE Head(s) * Product(Tail(s))

RECURSIVE Flatten(_)
Flatten(ss) == IF ss = <<>> THEN <<>> ELSE Head(ss) \o Flatten(Tail(ss))

RECURSIVE Repeat(_, _)
Repeat(ss, w) == IF w = 0 THEN <<>> ELSE ss \o Repeat(ss, w - 1)

\* a number as a score
Plain(v) == <<v, 1>>

\* a < b for the scores a = a[1] ^ (1 / a[2]) and b = b[1] ^ (1 / b[2])
ScoreLess(a, b) ==
    IF a[2] = b[2] THEN a[1] < b[1] ELSE a[1] ^ b[2] < b[1] ^ a[2]

\* _Sampler.score: the geometric mean; n = 0 is its ZeroDivisionError
score(values) == <<Product(values), Len(values)>>
PoseError == <<0, 0>>

\* the value lists of the grids of the names kept that have active atoms
grid_values(ks, grid_dic, org, dic, trans, kept) ==
    LET sel == SelectSeq(ks, LAMBDA name : Len(dic[name]) > 0 /\ name \in kept)
    IN [k \in 1 .. Len(sel) |->
          grid_sample(grid_dic[sel[k]], org, dic[sel[k]], trans)]

\* _Sampler.sample_pose
sample_pose(ks, grid_dic, org, ats, trans, dic, pr) ==
    IF pr = "negative" \/ pr = "positive"
    THEN LET ncarbons == Len(SelectSeq(ats, LAMBDA a : a.atomic_symbol = "C"))
         IN IF "positive" \notin Range(ks) \/ ncarbons = 0 THEN PoseError
            ELSE LET weight == CarbonWeight \div ncarbons
                     apolar_values ==
                         Repeat(grid_values(ks, grid_dic, org, dic, trans,
                                            {"apolar"}),
                                weight)
                     charged_values ==
                         grid_values(ks, grid_dic, org, dic, trans,
                                     Range(ks) \ {"apolar"})
                 IN score(Flatten(apolar_values \o charged_values))
    ELSE score(Flatten(grid_values(ks, grid_dic, org, dic, trans,
                                   Range(ks))))

\* the cell indices update_out_grids writes
written_indices(ks, org, dic, trans) ==
    UNION { { point_to_indices(add_coordinates(dic[name][k], trans), org) :
              k \in 1 .. Len(dic[name]) } : name \in Range(ks) }

\* "pg.grid.set_value(i, j, k, max(score, pg.grid.value(i, j, k)))" for
\* each of the actives
RECURSIVE set_values_overwriting(_, _, _, _, _)
set_values_overwriting(grid, org, actives, trans, sc) ==
    IF actives = <<>> THEN grid
    ELSE LET idx == point_to_indices(add_coordinates(Head(actives), trans), org)
         IN set_values_overwriting([grid EXCEPT ![idx] = sc],
                                   org, Tail(actives), trans, sc)

RECURSIVE set_values(_, _, _, _, _)
set_values(grid, org, actives, trans, sc) ==
    IF actives = <<>> THEN grid
    ELSE LET idx == point_to_indices(add_coordinates(Head(actives), trans), org)
         IN set_values([grid EXCEPT ![idx] = IF ScoreLess(@, sc) THEN sc ELSE @],
                       org, Tail(actives), trans, sc)

\* _Sampler.update_out_grids
update_out_grids(pgs, ks, org, sc, dic, trans) ==
    [name \in Range(ks) |-> set_values(pgs[name], org, dic[name], trans, sc)]

\* "if score < 5: continue"
below_min(sc) == ScoreLess(sc, Plain(MinScore))

\* "if score > 14:"
at_least_display(sc) == ~ScoreLess(sc, Plain(DisplayScore))
above_display(sc) == ScoreLess(Plain(DisplayScore), sc)

\* "high_scoring_probes[score].append(m)", "except KeyError: ... = [m]"
retain(hsp, sc, m) ==
    IF sc \in DOMAIN hsp THEN [hsp EXCEPT ![sc] = Append(@, m)]
    ELSE [k \in (DOMAIN hsp) \cup {sc} |-> IF k = sc THEN <<m>> ELSE hsp[k]]

\* "for key in sorted(high_scoring_probes.iterkeys(), reverse=True)"
RECURSIVE sorted_probes(_)
sorted_probes(hsp) ==
    IF DOMAIN hsp = {} THEN <<>>
    ELSE LET top == CHOOSE k \in DOMAIN hsp :
                        \A j \in DOMAIN hsp : ~ScoreLess(k, j)
         IN hsp[top] \o sorted_probes([k \in (DOMAIN hsp) \ {top} |-> hsp[k]])

returned_probes_uncapped(sp) == sp

\* "if len(sampled_probes) > 10000: return sampled_probes[:10000]"
returned_probes(sp) ==
    IF Len(sp) > MaxProbes THEN SubSeq(sp, 1, MaxProbes) ELSE sp

\* ------------------------------------------------------- sampler inputs
\* map values: low, and such that a pose of two atoms can score exactly 5
\* (25 * 1), exactly 14 (28 * 7), and two different scores above 14
SampleValues == {1, 7, 25, 28}

\* map values of the five-grid sampler: the product of the seven values of
\* a charged probe's pose stays below 2^31
ChargedSampleValues == {1, 7, 16}

\* the maps sampled: a run of values repeated along the axis
SamplePatterns(ks) ==
    { [i \in Cells |-> run[(i % 3) + 1]] :
      run \in [1 .. 3 -> IF ks = Keys5 THEN ChargedSampleValues ELSE SampleValues] }
Origins == {0 - gs, 0 - (gs \div 2), 1}

Mirror(vals) == [i \in Cells |-> vals[(NumCells - 1) - i]]

\* the weighted maps: the apolar map and, mirrored, the polar maps
SampleMaps(ks, vals) ==
    [name \in Range(ks) |-> IF name = "apolar" THEN vals ELSE Mirror(vals)]

\* the probe molecules, with the sampler (three or five grids) they are
\* sampled by
ProbeMolecules ==
    { [probe |-> "apolar", ks |-> Keys3,
       ats |-> << Atom(1, "C", FALSE, FALSE, 0, 0),
                  Atom(2, "C", FALSE, FALSE, 0, 1) >>],
      [probe |-> "donor", ks |-> Keys3,
       ats |-> << Atom(1, "N", TRUE, FALSE, 0, 0),
                  Atom(2, "C", FALSE, FALSE, 0, 1),
                  Atom(3, "H", FALSE, FALSE, 0, -1) >>],
      [probe |-> "acceptor", ks |-> Keys3,
       ats |-> << Atom(1, "O", FALSE, TRUE, 0, 0),
                  Atom(2, "C", FALSE, FALSE, 0, 1) >>],
      [probe |-> "donor", ks |-> Keys3,
       ats |-> << Atom(1, "N", TRUE, FALSE, 0, 0),
                  Atom(2, "O", FALSE, TRUE, 0, 1),
                  Atom(3, "C", FALSE, FALSE, 0, -1) >>],
      [probe |-> "apolar", ks |-> Keys3,
       ats |-> << Atom(1, "Xe", FALSE, FALSE, 0, 0) >>],
      [probe |-> "negative", ks |-> Keys5,
       ats |-> << Atom(1, "O", FALSE, TRUE, -1, 0),
                  Atom(2, "C", FALSE, FALSE, 0, 1) >>],
      [probe |-> "positive", ks |-> Keys5,
       ats |-> << Atom(1, "N", TRUE, FALSE, 1, 0),
                  Atom(2, "C", FALSE, FALSE, 0, 1) >> ] }

ZeroScores == [i \in Cells |-> Plain(0)]

\* a constructed _Sampler and the arguments of the call of sample
SamplerInit ==
    /\ \E mol \in ProbeMolecules : \E vals \in SamplePatterns(mol.ks) :
          /\ names = mol.ks
          /\ atoms = mol.ats
          /\ probe_name = mol.probe
          /\ sample_grids = SampleMaps(mol.ks, vals)
          /\ active_atoms = [name \in Range(mol.ks) |-> NoAttr]
          /\ probe_active_atoms = [name \in Range(mol.ks) |-> NoAttr]
          /\ active_coordinates_dic = [name \in Range(mol.ks) |-> <<>>]
          /\ probe_grids = [name \in Range(mol.ks) |-> ZeroScores]
    /\ origin \in Origins
    /\ orientation = 1
    /\ nrotations \in 1 .. MaxRot
    /\ polar_contributions \in BOOLEAN
    /\ spc = "start"
    /\ priority_atom = 0
    /\ translate_points = <<>>
    /\ quaternions = <<>>
    /\ qi = 1
    /\ ti = 1
    /\ high_scoring_probes = <<>>
    /\ sampled_probes = <<>>
    /\ processed = {}
    /\ scored = <<>>

\* no sampler
SamplerIdle ==
    /\ names = <<>>
    /\ atoms = <<>>
    /\ probe_name = ""
    /\ sample_grids = <<>>
    /\ active_atoms = <<>>
    /\ probe_active_atoms = <<>>
    /\ active_coordinates_dic = <<>>
    /\ probe_grids = <<>>
    /\ origin = 0
    /\ orientation = 1
    /\ nrotations = 1
    /\ polar_contributions = FALSE
    /\ spc = "idle"
    /\ priority_atom = 0
    /\ translate_points = <<>>
    /\ quaternions = <<>>
    /\ qi = 1
    /\ ti = 1
    /\ high_scoring_probes = <<>>
    /\ sampled_probes = <<>>
    /\ processed = {}
    /\ scored = <<>>

\* no generate_rand_quaternions call
QuatIdle ==
    /\ quat_n = 0
    /\ quat_i = 1
    /\ quat_list = <<>>
    /\ quat_pc = "idle"

\* no _run_ss call
SsIdle ==
    /\ job_order = <<>>
    /\ job_pc = <<>>
    /\ cwd = "start_dir"
    /\ saved_dir = <<>>
    /\ files = {}
    /\ writes = {}
    /\ reads = {}
    /\ disturbed = {}
    /\ job_outcome = <<>>
    /\ gather_i = 1
    /\ delivered = <<>>
    /\ caller_pc = "idle"

\* no _common_grid call
CgIdle ==
    /\ cg_g1 = <<>>
    /\ cg_g2 = <<>>
    /\ cg_padding = 0
    /\ cg_out = <<>>
    /\ cg_pc = "idle"

\* no correct_ligsite call
ClIdle ==
    /\ cl_g = <<>>
    /\ cl_l = <<>>
    /\ cl_self = <<FALSE, FALSE>>
    /\ cl_out = <<>>
    /\ cl_pc = "idle"

\* no update_grid call
GhIdle ==
    /\ gh_lines = <<>>
    /\ gh_origin = 0
    /\ gh_grid = <<>>
    /\ gh_i = 1
    /\ gh_pc = "idle"

\* no construct call
BfIdle ==
    /\ bf_locations = <<>>
    /\ bf_features = <<>>
    /\ assigned_features = <<>>
    /\ bf_i = 1
    /\ bf_pc = "idle"

\* no extract_hotspots call
EhIdle ==
    /\ eh_pharmacophore = FALSE
    /\ hrs = <<>>
    /\ eh_i = 1
    /\ eh_pc = "idle"

\* no drug_sized call
DsIdle ==
    /\ ds_islands = <<>>
    /\ ds_box = <<0, 0>>
    /\ ds_result = ""
    /\ ds_pc = "idle"

\* no _get_near_score call
NsIdle ==
    /\ ns_g = <<>>
    /\ ns_origin = 0
    /\ ns_coordinates = 0
    /\ ns_tolerance = 0
    /\ ns_reads = {}
    /\ ns_result = <<>>
    /\ ns_pc = "idle"

\* none of the calls of Parts 7 and later
FnIdle == CgIdle /\ ClIdle /\ GhIdle /\ BfIdle /\ EhIdle /\ DsIdle /\ NsIdle

\* no best_continuous_volume call
BcvIdle ==
    /\ keys = <<>>
    /\ super_grids = <<>>
    /\ pocket_mask = <<>>
    /\ num_gp = 0
    /\ pc = "idle"
    /\ masked_grids = <<>>
    /\ sum_g = ZeroGrid
    /\ score_cutoff = 0
    /\ tmp_g = <<>>
    /\ new_cutoff = -1
    /\ kept_points = {}
    /\ second_mask = ZeroGrid
    /\ bcv_grids = <<>>
    /\ remaining_grids = <<>>

\* _Sampler.sample up to its loop: the anchor, the translation points, the
\* quaternions and the active atoms of both sets of grids
sample_start ==
    /\ spc = "start"
    /\ \E pa \in { get_priority_atom(atoms, orientation) }, rev \in BOOLEAN :
          /\ priority_atom' = pa.atom.id
          /\ translate_points' =
                 get_translation_points(sample_grids, origin, pa.pa_type, rev)
    /\ atoms' = remove_hydrogens(atoms)
    /\ quaternions' \in generate_rand_quaternions(nrotations)
    /\ active_atoms' =
           [name \in Range(names) |->
               set_molecule(name, atoms', TRUE, active_atoms[name])]
    /\ probe_active_atoms' =
           [name \in Range(names) |->
               set_molecule(name, atoms', polar_contributions,
                            probe_active_atoms[name])]
    /\ qi' = 1
    /\ ti' = 1
    /\ spc' = "rotate"
    /\ UNCHANGED <<names, sample_grids, origin, orientation, probe_name,
                   nrotations, polar_contributions, active_coordinates_dic,
                   probe_grids, high_scoring_probes, sampled_probes, processed, scored>>
    /\ UNCHANGED <<bcvVars, auxVars>>

\* "for q in quaternions: molecule.apply_quaternion(q) ...
\*  active_coordinates_dic = self.get_active_coordinates()"
sample_rotate ==
    /\ spc = "rotate"
    /\ qi <= Len(quaternions)
    /\ orientation' = apply_quaternion(orientation, quaternions[qi])
    /\ active_coordinates_dic' =
           get_active_coordinates(names, active_atoms, atoms, orientation')
    /\ ti' = 1
    /\ IF translate_points = <<>>
       THEN qi' = qi + 1 /\ spc' = "rotate"
       ELSE qi' = qi /\ spc' = "translate"
    /\ UNCHANGED <<names, sample_grids, origin, atoms, probe_name, nrotations,
                   polar_contributions, priority_atom, translate_points,
                   quaternions, active_atoms, probe_active_atoms, probe_grids,
                   high_scoring_probes, sampled_probes, processed, scored>>
    /\ UNCHANGED <<bcvVars, auxVars>>

\* the end of one pass of "for priority_atom_point in translate_points"
next_point ==
    IF ti < Len(translate_points)
    THEN ti' = ti + 1 /\ qi' = qi /\ spc' = "translate"
    ELSE ti' = 1 /\ qi' = qi + 1 /\ spc' = "rotate"

\* one pass of "for priority_atom_point in translate_points": the pose is
\* scored, dropped if its score is below 5, retained if above 14, and
\* written to the output grids
sample_translate ==
    /\ spc = "translate"
    /\ LET priority_atom_coordinates ==
               atom_coordinates(AtomById(atoms, priority_atom), orientation)
           translation == translate_points[ti] - priority_atom_coordinates
       IN \E sc \in { sample_pose(names, sample_grids, origin, atoms, translation,
                                  active_coordinates_dic, probe_name) } :
          IF sc = PoseError
          THEN /\ spc' = "error"
               /\ UNCHANGED <<qi, ti, probe_grids, high_scoring_probes, processed,
                               scored>>
          ELSE /\ scored' = Append(scored, <<qi, ti>>)
               /\ processed' = processed \cup
                       { [score |-> sc, orientation |-> orientation,
                          translation |-> translation] }
               /\ IF below_min(sc)
                  THEN /\ next_point
                       /\ UNCHANGED <<probe_grids, high_scoring_probes>>
                  ELSE /\ high_scoring_probes' =
                              IF above_display(sc)
                              THEN retain(high_scoring_probes, sc,
                                          [orientation |-> orientation,
                                           translation |-> translation,
                                           identifier |-> sc])
                              ELSE high_scoring_probes
                       /\ IF written_indices(names, origin, active_coordinates_dic,
                                             translation) \subseteq Cells
                          THEN /\ probe_grids' =
                                      update_out_grids(probe_grids, names, origin, sc,
                                                       active_coordinates_dic,
                                                       translation)
                               /\ next_point
                          ELSE /\ spc' = "error"
                               /\ UNCHANGED <<qi, ti, probe_grids>>
    /\ UNCHANGED <<names, sample_grids, origin, atoms, orientation, probe_name,
                   nrotations, polar_contributions, priority_atom,
                   translate_points, quaternions, active_atoms,
                   probe_active_atoms, active_coordinates_dic, sampled_probes>>
    /\ UNCHANGED <<bcvVars, auxVars>>

\* after the last quaternion: the retained copies, best first, at most 10000
sample_return ==
    /\ spc = "rotate"
    /\ qi > Len(quaternions)
    /\ sampled_probes' = returned_probes(sorted_probes(high_scoring_probes))
    /\ spc' = "returned"
    /\ UNCHANGED <<names, sample_grids, origin, atoms, orientation, probe_name,
                   nrotations, polar_contributions, priority_atom,
                   translate_points, quaternions, qi, ti, active_atoms,
                   probe_active_atoms, active_coordinates_dic, probe_grids,
                   high_scoring_probes, processed, scored>>
    /\ UNCHANGED <<bcvVars, auxVars>>

\* ------------------------------------ Part 3: update_out_grids, pose by pose
\* update_out_grids is given the poses of a set one after the other, in any
\* order.  A pose is its score, its active coordinates and its translation.
PoseScores == { Plain(2), Plain(5), Plain(10), Plain(20) }

PoseInputs(org) ==
    { h \in [score : PoseScores,
             dic : { [name \in Range(Keys3) |->
                        CASE name = "apolar" -> <<x, x + gs>>
                          [] name = "donor" -> <<x + 1>>
                          [] name = "acceptor" -> <<>>] : x \in {0, 3} },
             translation : { indices_to_point(c, org) : c \in {0, 1} }] :
        written_indices(Keys3, org, h.dic, h.translation) \subseteq Cells }

UpdIdle == pending = {} /\ applied = {}

UpdInit ==
    /\ names = Keys3
    /\ origin \in Origins
    /\ probe_grids = [name \in Range(Keys3) |-> ZeroScores]
    /\ pending \in { S \in SUBSET PoseInputs(origin) :
                       Cardinality(S) >= 1 /\ Cardinality(S) <= MaxPoses }
    /\ applied = {}
    /\ atoms = <<>>
    /\ probe_name = ""
    /\ sample_grids = <<>>
    /\ active_atoms = <<>>
    /\ probe_active_atoms = <<>>
    /\ active_coordinates_dic = <<>>
    /\ orientation = 1
    /\ nrotations = 1
    /\ polar_contributions = FALSE
    /\ spc = "idle"
    /\ priority_atom = 0
    /\ translate_points = <<>>
    /\ quaternions = <<>>
    /\ qi = 1
    /\ ti = 1
    /\ high_scoring_probes = <<>>
    /\ sampled_probes = <<>>
    /\ processed = {}
    /\ scored = <<>>

\* "self.update_out_grids(score, active_coordinates_dic, translation)" for
\* one of the poses left
update_pose ==
    /\ \E h \in pending :
          /\ probe_grids' = update_out_grids(probe_grids, names, origin, h.score,
                                             h.dic, h.translation)
          /\ pending' = pending \ {h}
          /\ applied' = applied \cup {h}
    /\ UNCHANGED <<names, sample_grids, origin, atoms, orientation, probe_name,
                   nrotations, polar_contributions, spc, priority_atom,
                   translate_points, quaternions, qi, ti, active_atoms,
                   probe_active_atoms, active_coordinates_dic,
                   high_scoring_probes, sampled_probes, processed, scored>>
    /\ UNCHANGED <<bcvVars, quatVars, ssVars, fnVars>>

UpdNext == update_pose

InitUpdate == BcvIdle /\ UpdInit /\ QuatIdle /\ SsIdle /\ FnIdle

SpecUpdate == InitUpdate /\ [][UpdNext]_vars

\* ------------------------- Part 5: _Sampler.generate_rand_quaternions
\* A random number of random.uniform(-1, 1) is k / RandomSteps for an
\* integer k.  A fraction is the pair <<numerator, denominator>>.  The
\* components q[3] and q[4] hold a square root: a quaternion is kept as
\* the squares of its four components, which are fractions.
RandomDraws == (0 - RandomSteps) .. RandomSteps

Square(k) == k * k

\* s = ra * ra + rb * rb, times RandomSteps squared
SumOfSquares(ka, kb) == Square(ka) + Square(kb)

\* "s1 < 1", "s2 < 1"
accepted(ka, kb) == SumOfSquares(ka, kb) < Square(RandomSteps)

\* (r * np.sqrt((1 - s1) / s2)) squared
scaled_square(k, k1, k2, k3, k4) ==
    << Square(k) * (Square(RandomSteps) - SumOfSquares(k1, k2)),
       Square(RandomSteps) * SumOfSquares(k3, k4) >>

\* "q = (r1, r2, r3 * (np.sqrt((1 - s1) / s2)), r4 * (np.sqrt((1 - s1) / s2)))",
\* squared component by component
quaternion_squares(k1, k2, k3, k4) ==
    << <<Square(k1), Square(RandomSteps)>>,
       <<Square(k2), Square(RandomSteps)>>,
       scaled_square(k3, k1, k2, k3, k4),
       scaled_square(k4, k1, k2, k3, k4) >>

QuatInit ==
    /\ quat_n \in 1 .. MaxRot
    /\ quat_i = 1
    /\ quat_list = <<>>
    /\ quat_pc = "loop"

\* one pass of "while i <= self.settings.nrotations": a draw that is
\* rejected, one that appends a quaternion, or one that divides by s2 = 0
quaternion_draw ==
    /\ quat_pc = "loop"
    /\ quat_n > 1
    /\ quat_i <= quat_n
    /\ \E k1 \in RandomDraws, k2 \in RandomDraws :
          IF ~accepted(k1, k2)
          THEN UNCHANGED <<quat_i, quat_list, quat_pc>>
          ELSE \E k3 \in RandomDraws, k4 \in RandomDraws :
                 IF ~accepted(k3, k4)
                 THEN UNCHANGED <<quat_i, quat_list, quat_pc>>
                 ELSE IF SumOfSquares(k3, k4) = 0
                 THEN /\ quat_pc' = "error"
                      /\ UNCHANGED <<quat_i, quat_list>>
                 ELSE /\ quat_list' = Append(quat_list,
                                             quaternion_squares(k1, k2, k3, k4))
                      /\ quat_i' = quat_i + 1
                      /\ UNCHANGED quat_pc
    /\ UNCHANGED quat_n
    /\ UNCHANGED <<bcvVars, samplerVars, updVars, ssVars, fnVars>>

\* "return quaternions"
quaternion_return ==
    /\ quat_pc = "loop"
    /\ (quat_n > 1 => quat_i > quat_n)
    /\ quat_pc' = "returned"
    /\ UNCHANGED <<quat_n, quat_i, quat_list>>
    /\ UNCHANGED <<bcvVars, samplerVars, updVars, ssVars, fnVars>>

QuatNext == quaternion_draw \/ quaternion_return

InitQuaternion == BcvIdle /\ SamplerIdle /\ UpdIdle /\ SsIdle /\ FnIdle /\ QuatInit

SpecQuaternion == InitQuaternion /\ [][QuatNext]_vars

\* ------------------------------------- Part 6: the SuperStar fan-out
\* "self.probe_dict" without charged probes
probe_dict == {"apolar", "donor", "acceptor"}

\* "wrk_dir = _test_output_dir()": one directory for all the jobs
wrk_dir == "wrk_dir"

\* a path: a directory and a file name
Path(dir, name) == [dir |-> dir, name |-> name]

\* "join('protein.pdb')": a relative path, resolved in the working directory
\* of the process
protein_pdb(dir) == Path(dir, <<"protein.pdb">>)

\* "self.fname = join(out, 'superstar_{}.ins'.format(jobname.split('.')[0]))"
fname(n) == Path("out_dir", <<"ins", "superstar", n, "ins">>)

\* "grid_path = join(working_directory, self.identifier + '.ins.acnt')"
grid_path(n) == Path(wrk_dir, <<n, "ins", "acnt">>)

\* "ligsite_path = join(working_directory, self.identifier + '.ins.ligsite.acnt')"
ligsite_path(n) == Path(wrk_dir, <<n, "ins", "ligsite", "acnt">>)

\* the files a SuperStar run can leave in the directory it runs in
superstar_outputs(n, dir) ==
    { {},
      { Path(dir, grid_path(n).name) },
      { Path(dir, ligsite_path(n).name) },
      { Path(dir, grid_path(n).name), Path(dir, ligsite_path(n).name) } }

\* the orders of "self.probe_dict.keys()"
JobOrders ==
    { o \in [1 .. Cardinality(probe_dict) -> probe_dict] :
        \A i, j \in DOMAIN o : o[i] = o[j] => i = j }

\* the jobs inside "with PushDir(...)"
InPushDir == { n \in probe_dict :
                 job_pc[n] \in {"pushed", "written", "inputs", "called"} }

\* the jobs a worker thread is running
Running == InPushDir \cup { n \in probe_dict : job_pc[n] = "popped" }

\* "ex.map(self._superstar_job, args)" has submitted one job for each probe
SsInit ==
    /\ job_order \in JobOrders
    /\ job_pc = [n \in probe_dict |-> "queued"]
    /\ cwd = "start_dir"
    /\ saved_dir = [n \in probe_dict |-> "none"]
    /\ files = {}
    /\ writes = {}
    /\ reads = {}
    /\ disturbed = {}
    /\ job_outcome = [n \in probe_dict |-> "none"]
    /\ gather_i = 1
    /\ delivered = <<>>
    /\ caller_pc = "gathering"

\* os.chdir(dir) by job n: the jobs inside PushDir whose directory changes
chdir(n, dir) ==
    /\ cwd' = dir
    /\ disturbed' = IF dir # cwd THEN disturbed \cup (InPushDir \ {n})
                    ELSE disturbed

\* a worker thread takes the job: _superstar_job up to the entry of
\* "with PushDir(self.settings.working_directory)"
push_dir(n) ==
    /\ job_pc[n] = "queued"
    /\ Cardinality(Running) < max_workers
    /\ saved_dir' = [saved_dir EXCEPT ![n] = cwd]
    /\ chdir(n, wrk_dir)
    /\ job_pc' = [job_pc EXCEPT ![n] = "pushed"]
    /\ UNCHANGED <<job_order, files, writes, reads, job_outcome, gather_i,
                   delivered, caller_pc>>

\* "with MoleculeWriter(join('protein.pdb')) as writer: writer.write(prot)"
write_protein(n) ==
    /\ job_pc[n] = "pushed"
    /\ files' = files \cup { protein_pdb(cwd) }
    /\ writes' = writes \cup { [job |-> n, path |-> protein_pdb(cwd)] }
    /\ job_pc' = [job_pc EXCEPT ![n] = "written"]
    /\ UNCHANGED <<job_order, cwd, saved_dir, reads, disturbed, job_outcome,
                   gather_i, delivered, caller_pc>>

\* "self._get_inputs(out_dir)"
get_inputs(n) ==
    /\ job_pc[n] = "written"
    /\ files' = files \cup { fname(n) }
    /\ writes' = writes \cup { [job |-> n, path |-> fname(n)] }
    /\ job_pc' = [job_pc EXCEPT ![n] = "inputs"]
    /\ UNCHANGED <<job_order, cwd, saved_dir, reads, disturbed, job_outcome,
                   gather_i, delivered, caller_pc>>

\* "subprocess.call(cmd, ...)": SuperStar runs in the working directory of
\* the process and leaves its grids there, or fails to
call_superstar(n) ==
    /\ job_pc[n] = "inputs"
    /\ \E out \in superstar_outputs(n, cwd) :
          /\ files' = files \cup out
          /\ writes' = writes \cup { [job |-> n, path |-> f] : f \in out }
    /\ job_pc' = [job_pc EXCEPT ![n] = "called"]
    /\ UNCHANGED <<job_order, cwd, saved_dir, reads, disturbed, job_outcome,
                   gather_i, delivered, caller_pc>>

\* the exit of "with PushDir(...)": back to the directory found at its entry
pop_dir(n) ==
    /\ job_pc[n] = "called"
    /\ chdir(n, saved_dir[n])
    /\ job_pc' = [job_pc EXCEPT ![n] = "popped"]
    /\ UNCHANGED <<job_order, saved_dir, files, writes, reads, job_outcome,
                   gather_i, delivered, caller_pc>>

\* _SuperstarResult.__init__: what it reads and how it ends.  Both tests
\* are "if exists(grid_path)"; Grid.from_file of a missing file fails in
\* the grid library
SuperstarResult(n, fs) ==
    IF grid_path(n) \notin fs
    THEN [reads |-> {}, outcome |-> "superstar grid could not be found"]
    ELSE IF grid_path(n) \in fs
    THEN [reads |-> { grid_path(n), ligsite_path(n) },
          outcome |-> IF ligsite_path(n) \in fs THEN "result"
                      ELSE "Grid.from_file failed"]
    ELSE [reads |-> { grid_path(n) },
          outcome |-> "ligsite grid could not be found"]

\* "return _SuperstarResult(self.settings)", the end of the job
superstar_result(n) ==
    /\ job_pc[n] = "popped"
    /\ reads' = reads \cup SuperstarResult(n, files).reads
    /\ job_outcome' = [job_outcome EXCEPT ![n] = SuperstarResult(n, files).outcome]
    /\ job_pc' = [job_pc EXCEPT ![n] = "done"]
    /\ UNCHANGED <<job_order, cwd, saved_dir, files, writes, disturbed,
                   gather_i, delivered, caller_pc>>

\* "list(results)": the result of the next job in the order of args, or
\* the exception that job raised
gather ==
    /\ caller_pc = "gathering"
    /\ IF gather_i > Len(job_order)
       THEN /\ caller_pc' = "returned"
            /\ UNCHANGED <<gather_i, delivered>>
       ELSE /\ job_pc[job_order[gather_i]] = "done"
            /\ IF job_outcome[job_order[gather_i]] = "result"
               THEN /\ delivered' = Append(delivered, job_order[gather_i])
                    /\ gather_i' = gather_i + 1
                    /\ UNCHANGED caller_pc
               ELSE /\ caller_pc' = "raised"
                    /\ delivered' = <<>>
                    /\ UNCHANGED gather_i
    /\ UNCHANGED <<job_order, job_pc, cwd, saved_dir, files, writes, reads,
                   disturbed, job_outcome>>

SsNext ==
    \/ \E n \in probe_dict :
          /\ \/ push_dir(n)
             \/ write_protein(n)
             \/ get_inputs(n)
             \/ call_superstar(n)
             \/ pop_dir(n)
             \/ superstar_result(n)
          /\ UNCHANGED <<bcvVars, samplerVars, updVars, quatVars, fnVars>>
    \/ gather /\ UNCHANGED <<bcvVars, samplerVars, updVars, quatVars, fnVars>>

InitSuperstar == BcvIdle /\ SamplerIdle /\ UpdIdle /\ QuatIdle /\ FnIdle /\ SsInit

SpecSuperstar == InitSuperstar /\ [][SsNext]_vars


\* none of the calls of Parts 1 to 6
CoreIdle == BcvIdle /\ SamplerIdle /\ UpdIdle /\ QuatIdle /\ SsIdle

\* -------------------------------- Part 7: _HotspotsHelper._common_grid
\* A grid on one axis: the index of its first cell on the lattice of the
\* 0.5 spacing, and the values of its cells.
GridOf(org, vals) == [origin |-> org, values |-> vals]

\* the lattice index of the last cell
last_cell(grid) == grid.origin + Len(grid.values) - 1

\* the value of the grid at a lattice index, 0 where it has no cell
value_on_lattice(grid, p) ==
    IF p >= grid.origin /\ p <= last_cell(grid)
    THEN grid.values[p - grid.origin + 1]
    ELSE 0

Min2(a, b) == IF a <= b THEN a ELSE b

\* Grid.super_grid(padding, ga, gb): the union of the bounding boxes with a
\* border of padding zero cells, the two grids put into it
super_grid(pad, ga, gb) ==
    LET lo == Min2(ga.origin, gb.origin) - pad
        hi == Max2(last_cell(ga), last_cell(gb)) + pad
    IN GridOf(lo, [k \in 1 .. (hi - lo + 1) |->
                      value_on_lattice(ga, lo + k - 1)
                      + value_on_lattice(gb, lo + k - 1)])

\* _copy_and_clear with the "g *= 0" left out
copy_not_cleared(grid) == grid

\* _HotspotsHelper._copy_and_clear: "g = grid.copy(); g *= 0"
copy_and_clear(grid) ==
    GridOf(grid.origin, [k \in DOMAIN grid.values |-> 0])

\* _HotspotsHelper._common_grid
common_grid(ga, gb, pad) ==
    LET sg == super_grid(pad, ga, gb)
        out_g == copy_and_clear(sg)
        out1 == super_grid(pad, ga, out_g)
        out2 == super_grid(pad, gb, out_g)
    IN <<out1, out2>>

GridOrigins == {0, 1}

InputGrids ==
    { GridOf(org, vals) :
        org \in GridOrigins,
        vals \in UNION { [1 .. n -> 0 .. MaxVal] : n \in 1 .. MaxSteps } }

Paddings == {0, DefaultPadding}

CgInit ==
    /\ cg_g1 \in InputGrids
    /\ cg_g2 \in InputGrids
    /\ cg_padding \in Paddings
    /\ cg_out = <<>>
    /\ cg_pc = "call"

common_grid_call ==
    /\ cg_pc = "call"
    /\ cg_out' = common_grid(cg_g1, cg_g2, cg_padding)
    /\ cg_pc' = "returned"
    /\ UNCHANGED <<cg_g1, cg_g2, cg_padding>>
    /\ UNCHANGED cgOthers

CgNext == common_grid_call

InitCommonGrid == CoreIdle /\ ClIdle /\ GhIdle /\ BfIdle /\ EhIdle /\ DsIdle /\ NsIdle /\ CgInit

SpecCommonGrid == InitCommonGrid /\ [][CgNext]_vars

\* ---------------------------- Part 8: _SuperstarResult.correct_ligsite
\* Grids on one axis are sequences of cell values.  A value of the result
\* is a fraction <<numerator, denominator>>.

\* the cells a reduction over the neighbours of cell k reads
neighbours(grid, k, with_self) ==
    { j \in DOMAIN grid : (j = k - 1 \/ j = k + 1 \/ (with_self /\ j = k)) }

\* Grid.max_value_of_neighbours
max_value_of_neighbours(grid, with_self) ==
    [k \in DOMAIN grid |->
        CHOOSE v \in { grid[j] : j \in neighbours(grid, k, with_self) } :
            \A j \in neighbours(grid, k, with_self) : grid[j] <= v]

\* Grid.mean_value_of_neighbours
mean_value_of_neighbours(grid, with_self) ==
    [k \in DOMAIN grid |->
        << SumOver(grid, neighbours(grid, k, with_self)),
           Cardinality(neighbours(grid, k, with_self)) >>]

\* "mask = ((l < 1) & (g > 2))"
correction_mask(g_, l_) ==
    [k \in DOMAIN l_ |->
        IF l_[k] < ClashBurial /\ g_[k] > FavourablePropensity THEN 1 ELSE 0]

\* _SuperstarResult.correct_ligsite
correct_ligsite(g_, l_, with_self) ==
    LET mask == correction_mask(g_, l_)
        lc == max_value_of_neighbours(l_, with_self[1])
        masked == [k \in DOMAIN l_ |-> mask[k] * lc[k]]
        correction == mean_value_of_neighbours(masked, with_self[2])
    IN [k \in DOMAIN l_ |->
           << l_[k] * correction[k][2] + correction[k][1], correction[k][2] >>]

PropensityValues == { FavourablePropensity, FavourablePropensity + 1 }

BurialGrids == UNION { [1 .. n -> 0 .. MaxVal] : n \in 2 .. MaxSteps + 1 }

ClInit ==
    /\ cl_l \in BurialGrids
    /\ cl_g \in [DOMAIN cl_l -> PropensityValues]
    /\ cl_self \in [1 .. 2 -> BOOLEAN]
    /\ cl_out = <<>>
    /\ cl_pc = "call"

correct_ligsite_call ==
    /\ cl_pc = "call"
    /\ cl_out' = correct_ligsite(cl_g, cl_l, cl_self)
    /\ cl_pc' = "returned"
    /\ UNCHANGED <<cl_g, cl_l, cl_self>>
    /\ UNCHANGED clOthers

ClNext == correct_ligsite_call

InitLigsite == CoreIdle /\ CgIdle /\ GhIdle /\ BfIdle /\ EhIdle /\ DsIdle /\ NsIdle /\ ClInit

SpecLigsite == InitLigsite /\ [][ClNext]_vars

\* -------------------------------- Part 9: _GhecomResult.update_grid
\* A line of the ghecom file: whether it starts with "HETATM", its
\* coordinate (in units of 0.125) and its rinacc.  Grid values are kept
\* times 2: 9.5 - rinacc is (19 - 2 * rinacc) / 2.
Line(het, x, rinacc) == [hetatm |-> het, x |-> x, rinacc |-> rinacc]

\* "9.5 - rinacc", times 2
ghecom_value(rinacc) == TwiceMaxRadius - 2 * rinacc

\* "if 0 <= i < x": every index of the grid
in_extent(idx) == 0 <= idx /\ idx < NumCells

\* "if 0 < i < x and 0 < j < y and 0 < k < z"
in_range(idx) == 0 < idx /\ idx < NumCells

\* one pass of "for line in lines" of update_grid
update_grid_line(grid, org, line) ==
    IF line.hetatm
    THEN LET idx == point_to_indices(line.x, org)
         IN IF in_range(idx)
            THEN [grid EXCEPT ![idx] = ghecom_value(line.rinacc)]
            ELSE grid
    ELSE grid

Radii == {2, 5}

\* the lines of a file for a grid at org: points from one cell before the
\* grid to one cell behind it
GhecomLines(org) ==
    { Line(TRUE, x, r) : x \in (org - gs) .. (far_corner(org) + gs), r \in Radii }
    \cup { Line(FALSE, org, 2) }

GhInit ==
    /\ gh_origin \in Origins
    /\ gh_lines \in UNION { [1 .. n -> GhecomLines(gh_origin)] : n \in 1 .. MaxLines }
    /\ gh_grid = [c \in Cells |-> 0]
    /\ gh_i = 1
    /\ gh_pc = "loop"

update_grid_step ==
    /\ gh_pc = "loop"
    /\ gh_i <= Len(gh_lines)
    /\ gh_grid' = update_grid_line(gh_grid, gh_origin, gh_lines[gh_i])
    /\ gh_i' = gh_i + 1
    /\ UNCHANGED <<gh_lines, gh_origin, gh_pc>>
    /\ UNCHANGED ghOthers

update_grid_return ==
    /\ gh_pc = "loop"
    /\ gh_i > Len(gh_lines)
    /\ gh_pc' = "returned"
    /\ UNCHANGED <<gh_lines, gh_origin, gh_grid, gh_i>>
    /\ UNCHANGED ghOthers

GhNext == update_grid_step \/ update_grid_return

InitGhecom == CoreIdle /\ CgIdle /\ ClIdle /\ BfIdle /\ EhIdle /\ DsIdle /\ NsIdle /\ GhInit

SpecGhecom == InitGhecom /\ [][GhNext]_vars

\* ------------------------------- Part 10: _HotspotBuilder.construct
\* A location: its coordinates (one axis).  Its island is the points within
\* IslandRadius of it.  A feature: its coordinates and, for each of its
\* island_probes, the coordinates of the probe's atoms[3].
IslandRadius == 2

island_contains_point(location, p) == Abs(p - location) <= IslandRadius

\* "self._get_distance(location.coordinates, feature.coordinates)"
get_distance(a, b) == Abs(a - b)

\* the dict distances: of the locations nearer than the cutoff, the last one
\* of each distance
distance_filter(locations, feature) ==
    { k \in DOMAIN locations :
        /\ get_distance(locations[k], feature.coordinates) < distance_cutoff
        /\ \A j \in DOMAIN locations :
              get_distance(locations[j], feature.coordinates)
                  = get_distance(locations[k], feature.coordinates) => j <= k }

\* "assigned_probes": the island_probes inside the location's island
assigned_probes(locations, k, feature) ==
    Len(SelectSeq(feature.island_probes,
                  LAMBDA p : island_contains_point(locations[k], p)))

\* in the place of a location: the division by zero
ZeroDivisionError == 0

\* construct for one feature: the locations that can get the feature (the
\* dict match_score keeps, for the highest score, the location that comes
\* last in the order of distances.values()); ZeroDivisionError for the division
\* "len(assigned_probes) / all_probes" by zero; none for no location
construct_feature(locations, feature) ==
    LET candidates == distance_filter(locations, feature)
    IN IF candidates = {} THEN {}
       ELSE IF Len(feature.island_probes) = 0 THEN {ZeroDivisionError}
       ELSE { k \in candidates :
                \A j \in candidates :
                    assigned_probes(locations, j, feature)
                        <= assigned_probes(locations, k, feature) }

LocationCoordinates == {0, 4, 12}

FeatureCoordinates == {2, 3, 20}

OccupantLists == { <<>>, <<0>>, <<4>>, <<0, 4>>, <<0, 0>> }

LocationLists ==
    { l \in UNION { [1 .. n -> LocationCoordinates] : n \in 0 .. MaxLocations } :
        \A j, k \in DOMAIN l : l[j] = l[k] => j = k }

Features ==
    { [coordinates |-> c, island_probes |-> o] :
        c \in FeatureCoordinates, o \in OccupantLists }

BfInit ==
    /\ bf_locations \in LocationLists
    /\ bf_features \in UNION { [1 .. n -> Features] : n \in 1 .. MaxFeatures }
    /\ assigned_features = [k \in DOMAIN bf_locations |-> <<>>]
    /\ bf_i = 1
    /\ bf_pc = "loop"

\* one pass of "for feature in self.features"
construct_step ==
    /\ bf_pc = "loop"
    /\ bf_i <= Len(bf_features)
    /\ LET winners == construct_feature(bf_locations, bf_features[bf_i])
       IN IF winners = {}
          THEN /\ bf_i' = bf_i + 1
               /\ UNCHANGED <<assigned_features, bf_pc>>
          ELSE IF winners = {ZeroDivisionError}
          THEN /\ bf_pc' = "error"
               /\ UNCHANGED <<assigned_features, bf_i>>
          ELSE \E k \in winners :
                 /\ assigned_features' =
                        [assigned_features EXCEPT ![k] = Append(@, bf_i)]
                 /\ bf_i' = bf_i + 1
                 /\ UNCHANGED bf_pc
    /\ UNCHANGED <<bf_locations, bf_features>>
    /\ UNCHANGED bfOthers

construct_return ==
    /\ bf_pc = "loop"
    /\ bf_i > Len(bf_features)
    /\ bf_pc' = "returned"
    /\ UNCHANGED <<bf_locations, bf_features, assigned_features, bf_i>>
    /\ UNCHANGED bfOthers

BfNext == construct_step \/ construct_return

InitConstruct == CoreIdle /\ CgIdle /\ ClIdle /\ GhIdle /\ EhIdle /\ DsIdle /\ NsIdle /\ BfInit

SpecConstruct == InitConstruct /\ [][BfNext]_vars

\* ----------------------- Part 11: HotspotResults.extract_hotspots
\* The call builds the locations and features (Part 10), runs construct and
\* then makes the results.  A result is the location it was made from, by
\* its identifier, with the location's assigned features.
HotspotResult(k, features) == [identifier |-> k, features |-> features]

\* one pass of "for i, hotspot in enumerate(build.locations)"
extract_location(results, k, features, pharmacophore) ==
    IF pharmacophore
    THEN Append(Append(results, HotspotResult(k, features)),
                HotspotResult(k, features))
    ELSE Append(results, HotspotResult(k, features))

EhInit ==
    /\ eh_pharmacophore \in BOOLEAN
    /\ hrs = <<>>
    /\ eh_i = 1
    /\ eh_pc = "build"

\* "build.construct(); build.format_data()" have returned
extract_built ==
    /\ eh_pc = "build"
    /\ bf_pc = "returned"
    /\ eh_pc' = "loop"
    /\ UNCHANGED <<eh_pharmacophore, hrs, eh_i>>
    /\ UNCHANGED <<ehOthers>>

extract_step ==
    /\ eh_pc = "loop"
    /\ eh_i <= Len(bf_locations)
    /\ hrs' = extract_location(hrs, eh_i, assigned_features[eh_i], eh_pharmacophore)
    /\ eh_i' = eh_i + 1
    /\ UNCHANGED <<eh_pharmacophore, eh_pc>>
    /\ UNCHANGED <<ehOthers>>

\* "return hrs"
extract_return ==
    /\ eh_pc = "loop"
    /\ eh_i > Len(bf_locations)
    /\ eh_pc' = "returned"
    /\ UNCHANGED <<eh_pharmacophore, hrs, eh_i>>
    /\ UNCHANGED <<ehOthers>>

EhNext ==
    \/ construct_step
    \/ construct_return
    \/ extract_built
    \/ extract_step
    \/ extract_return

InitExtract == CoreIdle /\ CgIdle /\ ClIdle /\ GhIdle /\ BfInit /\ DsIdle /\ NsIdle /\ EhInit

SpecExtract == InitExtract /\ [][EhNext]_vars

\* ------------------------------ Part 12: HotspotResults.drug_sized
\* An island of the buriedness grid on one axis: its bounding box min .. max
\* and the number of its cells with a value above 5.  Coordinates are in
\* cells; the centroid is kept times 2.
Island(lo, hi, n) == [min |-> lo, max |-> hi, cells |-> n]

\* "size = len([...]) * 0.125", "if size > drug_volume"
is_large(island) == island.cells > drug_volume * CellsPerVolume

\* _get_large_cavity: the large islands, in the order of islands()
get_large_cavity(islands) == SelectSeq(islands, is_large)

\* contains_point, tolerance 0, for the point c2 / 2: inside the bounding
\* box, where the island's value is above 0
contains_point(c2, island) == 2 * island.min < c2 /\ c2 < 2 * island.max

\* "(bottom_left.x + top_right.x) / 2", times 2
centroid2(box) == box[1] + box[2]

\* drug_sized: the loop returns in its first pass
drug_sized(islands, box) ==
    LET drug_cavity == get_large_cavity(islands)
    IN IF drug_cavity = <<>> THEN "None"
       ELSE IF contains_point(centroid2(box), drug_cavity[1]) THEN "True"
       ELSE "False"

CellCounts == { drug_volume * CellsPerVolume, drug_volume * CellsPerVolume + 1 }

IslandsOnAxis ==
    { isl \in [min : 0 .. MaxCoordinate, max : 0 .. MaxCoordinate, cells : CellCounts] :
        isl.min <= isl.max }

\* lists of islands that do not touch each other
IslandLists ==
    { l \in UNION { [1 .. n -> IslandsOnAxis] : n \in 0 .. MaxIslands } :
        \A j, k \in DOMAIN l :
            j # k => (l[j].max + 1 < l[k].min \/ l[k].max + 1 < l[j].min) }

DsInit ==
    /\ ds_islands \in IslandLists
    /\ ds_box \in { b \in (0 .. MaxCoordinate) \X (0 .. MaxCoordinate) : b[1] <= b[2] }
    /\ ds_result = ""
    /\ ds_pc = "call"

drug_sized_call ==
    /\ ds_pc = "call"
    /\ ds_result' = drug_sized(ds_islands, ds_box)
    /\ ds_pc' = "returned"
    /\ UNCHANGED <<ds_islands, ds_box>>
    /\ UNCHANGED dsOthers

DsNext == drug_sized_call

InitDrugSized == CoreIdle /\ CgIdle /\ ClIdle /\ GhIdle /\ BfIdle /\ EhIdle /\ NsIdle /\ DsInit

SpecDrugSized == InitDrugSized /\ [][DsNext]_vars

\* ------------------------- Part 13: HotspotResults._get_near_score
\* "if nx - i < tolerance + 1 ...: return 0, 'outside'" and
\* "if i < tolerance ...: return 0, 'outside'"
near_outside_short(i, nx, tolerance) == nx - i < tolerance \/ i < tolerance

near_outside(i, nx, tolerance) == nx - i < tolerance + 1 \/ i < tolerance

\* "range(-tolerance, +tolerance + 1)", added to i
near_indices(i, tolerance) == (i - tolerance) .. (i + tolerance)

\* g.value(i): a cell of the grid (0 stands for a read outside the extent)
grid_value(g, i) == IF i \in DOMAIN g THEN g[i] ELSE 0

\* "sorted(scores.keys(), reverse=True)[0]"
best_key(g, idxs) ==
    CHOOSE v \in { grid_value(g, i) : i \in idxs } :
        \A i \in idxs : grid_value(g, i) <= v

\* "scores[score]": the dict keeps the last index written for a value
best_index(g, idxs) ==
    CHOOSE i \in idxs :
        /\ grid_value(g, i) = best_key(g, idxs)
        /\ \A j \in idxs : grid_value(g, j) = best_key(g, idxs) => j <= i

\* the returned pair and the indices read
get_near_score(g, org, coordinates, tolerance) ==
    LET i == point_to_indices(coordinates, org)
        nx == NumCells
        idxs == near_indices(i, tolerance)
    IN IF near_outside(i, nx, tolerance)
       THEN [reads |-> {}, score |-> 0, at |-> "outside", point |-> 0]
       ELSE IF best_key(g, idxs) < MinNearScore
       THEN [reads |-> idxs, score |-> 0, at |-> "0", point |-> 0]
       ELSE [reads |-> idxs, score |-> best_key(g, idxs), at |-> "point",
             point |-> indices_to_point(best_index(g, idxs), org)]

NearValues == {0, MinNearScore - 1, MinNearScore + 1}

NearPoints == (0 - 2 * gs) .. ((NumCells + 1) * gs)

NsInit ==
    /\ ns_g \in [Cells -> NearValues]
    /\ ns_origin \in Origins
    /\ ns_coordinates \in NearPoints
    /\ ns_tolerance \in 0 .. MaxTolerance
    /\ ns_reads = {}
    /\ ns_result = <<>>
    /\ ns_pc = "call"

get_near_score_call ==
    /\ ns_pc = "call"
    /\ LET r == get_near_score(ns_g, ns_origin, ns_coordinates, ns_tolerance)
       IN /\ ns_reads' = r.reads
          /\ ns_result' = [score |-> r.score, at |-> r.at, point |-> r.point]
    /\ ns_pc' = "returned"
    /\ UNCHANGED <<ns_g, ns_origin, ns_coordinates, ns_tolerance>>
    /\ UNCHANGED nsOthers

NsNext == get_near_score_call

InitNearScore == CoreIdle /\ CgIdle /\ ClIdle /\ GhIdle /\ BfIdle /\ EhIdle /\ DsIdle /\ NsInit

SpecNearScore == InitNearScore /\ [][NsNext]_vars

AuxIdle == UpdIdle /\ QuatIdle /\ SsIdle /\ FnIdle

\* ------------------------------- Part 4: the return of _Sampler.sample
\* The end of the loop of sample with many retained copies: the scores
\* retained, and for each the number of copies.
RetainedScores == { Plain(15), Plain(20), Plain(30) }
RetainedCounts == { 2, MaxProbes \div 2, (MaxProbes \div 2) + 1 }

\* the copies retained for a score, in the order they were appended
retained_copies(sc, count) ==
    [k \in 1 .. count |->
        [orientation |-> (k % Len(Projection)) + 1, translation |-> k,
         identifier |-> sc]]

RetainedInputs ==
    UNION { { [sc \in S |-> retained_copies(sc, f[sc])] : f \in [S -> RetainedCounts] } :
            S \in (SUBSET RetainedScores) \ { {} } }

ReturnInit ==
    /\ high_scoring_probes \in RetainedInputs
    /\ names = Keys3
    /\ origin = 0
    /\ probe_grids = [name \in Range(Keys3) |-> ZeroScores]
    /\ atoms = <<>>
    /\ probe_name = "apolar"
    /\ sample_grids = <<>>
    /\ active_atoms = [name \in Range(Keys3) |-> <<>>]
    /\ probe_active_atoms = [name \in Range(Keys3) |-> <<>>]
    /\ active_coordinates_dic = [name \in Range(Keys3) |-> <<>>]
    /\ orientation = 1
    /\ nrotations = 2
    /\ polar_contributions = FALSE
    /\ spc = "rotate"
    /\ priority_atom = 1
    /\ translate_points = <<>>
    /\ quaternions = <<1, 1>>
    /\ qi = 3
    /\ ti = 1
    /\ sampled_probes = <<>>
    /\ processed = {}
    /\ scored = <<>>

ReturnNext == sample_return

InitReturn == BcvIdle /\ ReturnInit /\ AuxIdle

SpecReturn == InitReturn /\ [][ReturnNext]_vars

SamplerNext == sample_start \/ sample_rotate \/ sample_translate \/ sample_return

InitSampler == BcvIdle /\ SamplerInit /\ AuxIdle

SpecSampler == InitSampler /\ [][SamplerNext]_vars

Init == BcvInit /\ SamplerIdle /\ AuxIdle

Next == bcv_sum \/ bcv_select \/ bcv_results

Spec == Init /\ [][Next]_vars

\* ---------------------------------------------------------------- claims
Channels == Range(keys)
MaskCells == { i \in Cells : second_mask[i] = 1 }
Selected == pc \in {"selected", "done"}

\* C1: after _single_grid, for every channel and cell the single-owner value
\* is the channel's original value if that value is strictly greater than
\* the value of EVERY other channel at the cell, and 0 otherwise (with three
\* and with five channels).
C1_SingleOwnerBeatsEveryOther ==
    pc # "start" =>
        \A probe \in Channels, i \in Cells :
            masked_grids[probe][i] =
                IF \A q \in Channels \ {probe} :
                        super_grids[probe][i] > super_grids[q][i]
                THEN super_grids[probe][i] ELSE 0

\* C2 (as stated): every channel of the best-continuous-volume Result is the
\* ORIGINAL channel grid masked by the volume mask.
C2_BcvIsOriginalMasked ==
    pc = "done" =>
        \A probe \in Channels, i \in Cells :
            bcv_grids[probe][i] =
                IF second_mask[i] = 1 THEN super_grids[probe][i] ELSE 0

\* C2 (amended): every channel of the best-continuous-volume Result is the
\* channel's single-owner grid (the result of _single_grid) masked by the
\* volume mask: the single-owner value where the mask is true, 0 elsewhere.
C2_BcvIsSingleOwnerMasked ==
    pc = "done" =>
        \A probe \in Channels, i \in Cells :
            bcv_grids[probe][i] =
                IF second_mask[i] = 1 THEN masked_grids[probe][i] ELSE 0

\* a selected cell at which a channel that does not own the cell has a score
C2_Witness ==
    /\ pc = "done"
    /\ \E probe \in Channels, i \in MaskCells :
          super_grids[probe][i] > 0 /\ masked_grids[probe][i] = 0

\* C3: the volume mask never contains cells of two different islands of the
\* composite grid at the solved cutoff: all its cells lie in one island.
C3_MaskWithinOneIsland ==
    Selected =>
        \A i \in MaskCells, j \in MaskCells :
            \E r \in Islands(sum_g, score_cutoff) : {i, j} \subseteq IslandCells(r)

\* a selection made from a composite grid with two islands at the cutoff
C3_Witness ==
    /\ pc = "done"
    /\ Cardinality(Islands(sum_g, score_cutoff)) >= 2
    /\ MaskCells # {}

\* C4: the cells selected by the volume mask form one connected region.
C4_MaskConnected ==
    Selected =>
        \A i \in MaskCells, j \in MaskCells :
            \A k \in Cells : (i < k /\ k < j) => k \in MaskCells

\* C5: the cells selected by the final mask are exactly the cells kept by the
\* descending ranking of the chosen island; when the chosen island has at
\* least N cells, at least N cells are selected.
C5_MaskIsKeptPoints ==
    (Selected /\ tmp_g # <<>>) =>
        /\ MaskCells = kept_points
        /\ (Cardinality(IslandCells(tmp_g)) >= num_gp
                => Cardinality(MaskCells) >= num_gp)

\* C6: the island evaluated at the cutoff is the largest island at that
\* threshold, the one with the greatest number of cells.
C6_LargestIsland ==
    (Selected /\ tmp_g # <<>>) =>
        \A r \in Islands(sum_g, score_cutoff) :
            Cardinality(IslandCells(r)) <= Cardinality(IslandCells(tmp_g))

\* C7: when the composite grid has no island at the solved cutoff, the
\* selection is the all-zero grid, every channel of the best-continuous-
\* volume Result is all zero and every channel of the remaining Result equals
\* the original channel.
C7_EmptySelection ==
    (pc = "done" /\ Islands(sum_g, score_cutoff) = {}) =>
        /\ second_mask = ZeroGrid
        /\ \A probe \in Channels :
              /\ bcv_grids[probe] = ZeroGrid
              /\ remaining_grids[probe] = super_grids[probe]

\* an input with scores, and a cutoff at which it has no island
C7_Witness ==
    /\ pc = "done"
    /\ Islands(sum_g, score_cutoff) = {}
    /\ \E i \in Cells : sum_g[i] > 0

\* C8: the two Results partition each original channel: remaining =
\* original - bcv and bcv is 0 or the original value, at every cell.
C8_Partition ==
    pc = "done" =>
        \A probe \in Channels, i \in Cells :
            /\ remaining_grids[probe][i] = super_grids[probe][i] - bcv_grids[probe][i]
            /\ bcv_grids[probe][i] \in {0, super_grids[probe][i]}
            /\ bcv_grids[probe][i] + remaining_grids[probe][i] = super_grids[probe][i]

\* both Results hold scores, and a selected cell has a score outside its owner
C8_Witness ==
    /\ pc = "done"
    /\ \E probe \in Channels, i \in Cells : bcv_grids[probe][i] > 0
    /\ \E probe \in Channels, i \in MaskCells :
          remaining_grids[probe][i] > 0

\* C9: with a pocket mask, no cell whose pocket-mask value is >= 1 has a
\* non-zero value in any channel of the best-continuous-volume Result.
C9_PocketExcluded ==
    (pc = "done" /\ pocket_mask # <<>>) =>
        \A i \in Cells : pocket_mask[1][i] >= 1 =>
            \A probe \in Channels : bcv_grids[probe][i] = 0

\* a masked cell that has a score, next to cells that are selected
C9_Witness ==
    /\ pc = "done"
    /\ pocket_mask # <<>>
    /\ \E i \in Cells, probe \in Channels :
          pocket_mask[1][i] >= 1 /\ super_grids[probe][i] > 0
    /\ MaskCells # {}

\* ------------------------------------------------- sampler claims (C10 ..)
Returned == spc = "returned"

\* the points at which a scored pose placed the atoms a channel's predicate
\* selects
PlacedPoints(h, ch) ==
    { add_coordinates(atom_coordinates(atoms[k], h.orientation), h.translation) :
      k \in { j \in DOMAIN atoms : atom_predicate(ch, atoms[j]) } }

\* the cells whose centre no other cell centre is nearer to the point than
NearestCells(p) ==
    { c \in Cells : \A d \in Cells :
        Abs(p - indices_to_point(c, origin)) <= Abs(p - indices_to_point(d, origin)) }

\* the cell _point_to_indices gives the point
IndexedCells(p) == { point_to_indices(p, origin) }

\* the processed poses of score >= 5 that placed an active atom of the
\* channel nearest to the cell
PosesNearest(ch, c) ==
    { h \in processed :
        /\ ~ScoreLess(h.score, Plain(MinScore))
        /\ \E p \in PlacedPoints(h, ch) : c \in NearestCells(p) }

\* the same poses, by the cell _point_to_indices gives
PosesIndexed(ch, c) ==
    { h \in processed :
        /\ ~ScoreLess(h.score, Plain(MinScore))
        /\ \E p \in PlacedPoints(h, ch) : c \in IndexedCells(p) }

BestScore(S) ==
    IF S = {} THEN Plain(0)
    ELSE (CHOOSE h \in S : \A j \in S : ~ScoreLess(h.score, j.score)).score

BestScoreAtIndexedCell ==
    Returned =>
        \A ch \in Range(names) : \A c \in Cells :
            probe_grids[ch][c] = BestScore(PosesIndexed(ch, c))

\* on a grid whose origin is a multiple of the spacing, the nearest cell
BestScoreAtNearestCellAligned ==
    (Returned /\ origin % gs = 0) =>
        \A ch \in Range(names) : \A c \in Cells :
            probe_grids[ch][c] = BestScore(PosesNearest(ch, c))

\* ------------------------------------------ update_out_grids claims (C11)
\* the output grids after the poses of a set were applied one after the
\* other in one fixed order
RECURSIVE grids_after(_, _, _, _)
grids_after(pgs, ks, org, poses) ==
    IF poses = {} THEN pgs
    ELSE LET h == CHOOSE x \in poses : TRUE
         IN grids_after(update_out_grids(pgs, ks, org, h.score, h.dic, h.translation),
                        ks, org, poses \ {h})

\* C11: the content of every output grid is independent of the order in
\* which the poses are processed: whatever the order in which
\* update_out_grids was applied to a set of poses, the grids are those the
\* set gives in one fixed order.
C11_OrderIndependent ==
    probe_grids = grids_after([name \in Range(names) |-> ZeroScores], names,
                              origin, applied)

\* three poses were applied, two of them wrote different scores to one cell
C11_Witness ==
    /\ Cardinality(applied) >= 3
    /\ pending = {}
    /\ \E h1 \in applied, h2 \in applied :
          /\ h1.score # h2.score
          /\ written_indices(names, origin, h1.dic, h1.translation)
                \cap written_indices(names, origin, h2.dic, h2.translation) # {}

\* ------------------------------------------------ sampler claims (C12 ..)
\* the atoms the anchor is chosen from: the donors and acceptors, or every
\* atom if there is none
AnchorCandidates(ats) ==
    LET polar == { k \in DOMAIN ats : ats[k].is_donor \/ ats[k].is_acceptor }
    IN IF polar # {} THEN polar ELSE DOMAIN ats

\* the atom of the id is a candidate no other candidate is farther from the
\* centre of geometry than
IsFarthest(ats, o, id) ==
    \E k \in AnchorCandidates(ats) :
        /\ ats[k].id = id
        /\ \A j \in AnchorCandidates(ats) :
              centre_distance(ats, ats[j], o) <= centre_distance(ats, ats[k], o)

\* C12: get_priority_atom returns the donor/acceptor atom farthest from the
\* molecule's centre of geometry, and the farthest atom of any type when
\* the molecule has no donor/acceptor atom.
C12_AnchorIsFarthest ==
    [][(spc = "start" /\ spc' = "rotate") =>
           IsFarthest(atoms, orientation, priority_atom')]_vars

\* no grid has an active atom of the molecule
NoActiveAtom ==
    /\ spc \in {"rotate", "translate", "returned", "error"}
    /\ \A name \in Range(names) : active_atoms[name] = <<>>

CurrentScore ==
    sample_pose(names, sample_grids, origin, atoms,
                translate_points[ti]
                  - atom_coordinates(AtomById(atoms, priority_atom), orientation),
                active_coordinates_dic, probe_name)

RECURSIVE CountRetained(_)
CountRetained(hsp) ==
    IF DOMAIN hsp = {} THEN 0
    ELSE LET k == CHOOSE x \in DOMAIN hsp : TRUE
         IN Len(hsp[k]) + CountRetained([x \in (DOMAIN hsp) \ {k} |-> hsp[x]])

\* C14: a pose modifies the output grids only if its score is >= 5, a
\* placed copy of the probe is retained if and only if its score is > 14,
\* and a pose with score < 5 leaves the output grids and the retained
\* copies unchanged.
C14_ScoreGates ==
    [][spc = "translate" =>
         /\ (probe_grids' # probe_grids => ~ScoreLess(CurrentScore, Plain(MinScore)))
         /\ (CountRetained(high_scoring_probes') = CountRetained(high_scoring_probes) + 1
                <=> ScoreLess(Plain(DisplayScore), CurrentScore))
         /\ (high_scoring_probes' # high_scoring_probes
                <=> ScoreLess(Plain(DisplayScore), CurrentScore))
         /\ (ScoreLess(CurrentScore, Plain(MinScore)) =>
                UNCHANGED <<probe_grids, high_scoring_probes>>)]_vars

\* a pose of score exactly 14 was written to the output grids and not
\* retained, a pose below 5 was dropped, and a pose above 14 was retained
C14_Witness ==
    /\ Returned
    /\ \E h \in processed : h.score = <<196, 2>>
    /\ \E name \in Range(names) : \E c \in Cells : probe_grids[name][c] = <<196, 2>>
    /\ \E h \in processed : ScoreLess(h.score, Plain(MinScore))
    /\ DOMAIN high_scoring_probes # {}
    /\ \A k \in DOMAIN high_scoring_probes : ScoreLess(Plain(DisplayScore), k)

\* a pose of score exactly 5 was written to the output grids
ExactMinScoreWritten ==
    /\ Returned
    /\ \E name \in Range(names) : \E c \in Cells : probe_grids[name][c] = <<25, 2>>

\* a pose of a positive score below 5 was processed and the run returned
LowScoreProcessed ==
    Returned /\ \E h \in processed : h.score[1] > 0 /\ ScoreLess(h.score, Plain(MinScore))

\* the retained copies
RetainedCopies ==
    UNION { Range(high_scoring_probes[k]) : k \in DOMAIN high_scoring_probes }

\* C15: the list sample returns is in non-increasing score order; it
\* contains every retained copy when at most 10000 were retained, copies of
\* equal score included, and otherwise exactly 10000 retained copies, none
\* of them of a lower score than a copy left out.
C15_ReturnedProbes ==
    Returned =>
        LET returned == Range(sampled_probes)
            retained == RetainedCopies
            count == CountRetained(high_scoring_probes)
        IN /\ \A k \in 1 .. (Len(sampled_probes) - 1) :
                 ~ScoreLess(sampled_probes[k].identifier,
                            sampled_probes[k + 1].identifier)
           /\ Cardinality(returned) = Len(sampled_probes)
           /\ returned \subseteq retained
           /\ IF count <= MaxProbes
              THEN Len(sampled_probes) = count
              ELSE /\ Len(sampled_probes) = MaxProbes
                   /\ \A m \in retained \ returned :
                         ~ScoreLess(sampled_probes[MaxProbes].identifier, m.identifier)

\* more than 10000 copies of two or more scores were retained, and the
\* list returned
C15_Witness ==
    /\ Returned
    /\ CountRetained(high_scoring_probes) > MaxProbes
    /\ Cardinality(DOMAIN high_scoring_probes) >= 2
    /\ Len(sampled_probes) = MaxProbes
    /\ sampled_probes[1].identifier # sampled_probes[MaxProbes].identifier

\* C16: generate_rand_quaternions returns a list of settings.nrotations
\* quaternions for every nrotations >= 1, and a sampling run has performed
\* exactly nrotations rotations when it ends.
C16_OneQuaternionPerRotation ==
    /\ spc \in {"rotate", "translate", "returned"} => Len(quaternions) = nrotations
    /\ Returned => qi - 1 = nrotations

\* ---------------------------------------------- quaternion claims (C17)
\* the sum of four fractions is 1
RECURSIVE FractionSum(_)
FractionSum(fs) ==
    IF fs = <<>> THEN <<0, 1>>
    ELSE LET r == FractionSum(Tail(fs))
             f == Head(fs)
         IN <<f[1] * r[2] + r[1] * f[2], f[2] * r[2]>>

UnitNorm(q) ==
    /\ \A k \in 1 .. 4 : q[k][2] # 0
    /\ FractionSum(q)[1] = FractionSum(q)[2]

\* C17: every accepted draw (r1, r2, r3, r4), the draw r3 = r4 = 0 included,
\* emits a quaternion, and every emitted quaternion has the squared norm 1
\* and no undefined component.
C17_UnitQuaternions ==
    /\ quat_pc # "error"
    /\ \A k \in DOMAIN quat_list : UnitNorm(quat_list[k])

\* every quaternion the loop did append has the squared norm 1
EmittedQuaternionsAreUnit ==
    \A k \in DOMAIN quat_list : UnitNorm(quat_list[k])

\* ------------------------------------------ SuperStar claims (C18 - C20)
MissingOutputErrors ==
    { "superstar grid could not be found", "ligsite grid could not be found" }

\* C18: constructing a _SuperstarResult ends in a missing-output error
\* whenever the primary grid file or the ligsite grid file is absent from
\* the working directory; when the primary file exists and the ligsite file
\* does not, the error is 'ligsite grid could not be found' and the missing
\* file is never read.
C18_MissingOutputIsSignalled ==
    \A n \in DOMAIN job_pc :
        job_pc[n] = "done" =>
            /\ (grid_path(n) \notin files \/ ligsite_path(n) \notin files)
                   => job_outcome[n] \in MissingOutputErrors
            /\ (grid_path(n) \in files /\ ligsite_path(n) \notin files)
                   => /\ job_outcome[n] = "ligsite grid could not be found"
                      /\ ligsite_path(n) \notin reads

\* a missing primary grid file is signalled by its own error, nothing read
MissingPrimaryIsSignalled ==
    \A n \in DOMAIN job_pc :
        (job_pc[n] = "done" /\ grid_path(n) \notin files)
            => /\ job_outcome[n] = "superstar grid could not be found"
               /\ grid_path(n) \notin reads
               /\ ligsite_path(n) \notin reads

AllJobsDone == \A n \in DOMAIN job_pc : job_pc[n] = "done"

\* C19: a job that fails aborts only itself: once the jobs have ended and
\* _run_ss has ended, the result of every job that did not fail has been
\* delivered to the caller.
C19_FailureAbortsOneJob ==
    (AllJobsDone /\ caller_pc \in {"returned", "raised"})
        => \A n \in DOMAIN job_pc :
               job_outcome[n] = "result" => n \in Range(delivered)

\* without a failing job the caller gets every result, in the order of args
AllResultsDelivered ==
    (caller_pc = "returned") => delivered = job_order

\* C20: in no interleaving of the worker threads do two jobs write the same
\* file path, or does a job change the working directory of the process
\* while another job is inside its own.
C20_IsolatedWorkingDirectories ==
    /\ \A w1 \in writes, w2 \in writes : w1.path = w2.path => w1.job = w2.job
    /\ disturbed = {}

\* ------------------------------------------- common grid claims (C21)
\* the two grids have the same origin and the same number of steps
SameFrame(ga, gb) ==
    ga.origin = gb.origin /\ Len(ga.values) = Len(gb.values)

\* out holds the values of grid at the cells of grid and 0 at its others
Embeds(out, grid) ==
    /\ out.origin <= grid.origin
    /\ last_cell(out) >= last_cell(grid)
    /\ \A p \in out.origin .. last_cell(out) :
           value_on_lattice(out, p) = value_on_lattice(grid, p)

\* C21 as stated: _common_grid of two grids on the same frame returns two
\* grids equal to the originals (bounding box and values), for the default
\* padding and for padding 0.
C21_CommonGridReturnsOriginals ==
    (cg_pc = "returned" /\ SameFrame(cg_g1, cg_g2))
        => cg_out = <<cg_g1, cg_g2>>

\* C21 amended: _common_grid of two grids on the same frame returns two
\* grids on one frame that contains the originals' frame, each with the
\* values of its original at the original's cells and 0 at every other
\* cell; for padding 0 the two grids are equal to the originals.
C21_CommonGridEmbedsOriginals ==
    (cg_pc = "returned" /\ SameFrame(cg_g1, cg_g2))
        => /\ SameFrame(cg_out[1], cg_out[2])
           /\ Embeds(cg_out[1], cg_g1)
           /\ Embeds(cg_out[2], cg_g2)
           /\ cg_padding = 0 => cg_out = <<cg_g1, cg_g2>>

C21_Witness ==
    /\ cg_pc = "returned"
    /\ SameFrame(cg_g1, cg_g2)
    /\ cg_padding = DefaultPadding
    /\ cg_g1 # cg_g2
    /\ \E k \in DOMAIN cg_g1.values : cg_g1.values[k] > 0
    /\ \E k \in DOMAIN cg_g2.values : cg_g2.values[k] > 0
    /\ Len(cg_out[1].values) > Len(cg_g1.values)

\* on any two grids the returned grids share a frame and embed the arguments
CommonGridAligns ==
    (cg_pc = "returned")
        => /\ SameFrame(cg_out[1], cg_out[2])
           /\ Embeds(cg_out[1], cg_g1)
           /\ Embeds(cg_out[2], cg_g2)

\* ---------------------------------------- correct_ligsite claims (C22)
FractionEq(a, b) == a[1] * b[2] = b[1] * a[2]

\* C22: correct_ligsite changes the burial value only at the cells of the
\* correction mask (burial < 1 and propensity > 2), where the value becomes
\* the mean of the neighbours' maximum-smoothed burial values; every cell
\* outside the mask keeps its input burial value.
C22_CorrectionOnlyAtMask ==
    (cl_pc = "returned") =>
        \A k \in DOMAIN cl_l :
            IF correction_mask(cl_g, cl_l)[k] = 1
            THEN FractionEq(cl_out[k],
                            mean_value_of_neighbours(
                                max_value_of_neighbours(cl_l, cl_self[1]),
                                cl_self[2])[k])
            ELSE FractionEq(cl_out[k], <<cl_l[k], 1>>)

\* without a cell in the mask the burial grid is returned unchanged
NoMaskNoCorrection ==
    (cl_pc = "returned" /\ \A k \in DOMAIN cl_l : correction_mask(cl_g, cl_l)[k] = 0)
        => \A k \in DOMAIN cl_l : FractionEq(cl_out[k], <<cl_l[k], 1>>)

\* a cell that is not in the mask and has no neighbour in it keeps its value
FarFromMaskUnchanged ==
    (cl_pc = "returned") =>
        \A k \in DOMAIN cl_l :
            (\A j \in neighbours(cl_l, k, TRUE) : correction_mask(cl_g, cl_l)[j] = 0)
                => FractionEq(cl_out[k], <<cl_l[k], 1>>)

\* -------------------------------------------- update_grid claims (C23)
\* the indices, in the grid or one or two cells outside it, of the cell
\* centres nearest to the point p (two of them for a point half-way)
nearest_indices(p, org) ==
    LET around == (0 - 2) .. (NumCells + 1)
    IN { c \in around : \A d \in around :
           Abs(p - indices_to_point(c, org)) <= Abs(p - indices_to_point(d, org)) }

\* what C23 says one line does to the grid, for the nearest cell c
NearestCellAssignment(grid, c, line) ==
    IF line.hetatm /\ in_extent(c)
    THEN [grid EXCEPT ![c] = ghecom_value(line.rinacc)]
    ELSE grid

\* C23: in update_grid a HETATM record sets its nearest grid cell to
\* 9.5 - rinacc if and only if that cell is inside the grid extent
\* (0 <= i < nx); a record whose nearest cell is outside changes nothing.
C23_NearestCellInsideExtent ==
    [][(gh_pc = "loop" /\ gh_i' = gh_i + 1)
          => \E c \in nearest_indices(gh_lines[gh_i].x, gh_origin) :
                gh_grid' = NearestCellAssignment(gh_grid, c, gh_lines[gh_i])]_vars

\* a record changes only cells inside the extent, and never the cell 0
WritesInsideExtent ==
    [][\A c \in Cells : gh_grid'[c] # gh_grid[c] => (in_extent(c) /\ c # 0)]_vars

\* on a grid whose origin is on the lattice of the spacing, a record whose
\* nearest cell has an index i with 0 < i < nx sets that cell
InteriorCellAssigned ==
    [][(gh_pc = "loop" /\ gh_i' = gh_i + 1 /\ gh_origin % gs = 0
        /\ \A c \in nearest_indices(gh_lines[gh_i].x, gh_origin) : in_range(c))
          => \E c \in nearest_indices(gh_lines[gh_i].x, gh_origin) :
                gh_grid' = NearestCellAssignment(gh_grid, c, gh_lines[gh_i])]_vars

\* on such a grid, a record whose nearest cell is the cell 0 changes nothing
FirstCellSkipped ==
    [][(gh_pc = "loop" /\ gh_i' = gh_i + 1 /\ gh_origin % gs = 0
        /\ nearest_indices(gh_lines[gh_i].x, gh_origin) = {0})
          => gh_grid' = gh_grid]_vars

\* ---------------------------------------------- construct claims (C24)
\* the number of entries of the assigned_features lists that are feature f
TimesAssigned(f) ==
    SumOver([k \in DOMAIN bf_locations |->
                Cardinality({ j \in DOMAIN assigned_features[k] :
                                assigned_features[k][j] = f })],
            DOMAIN bf_locations)

InRange(f) ==
    \E k \in DOMAIN bf_locations :
        get_distance(bf_locations[k], bf_features[f].coordinates) < distance_cutoff

PassedFeaturesAssignedOnce ==
    (bf_pc # "idle") =>
        \A f \in 1 .. Len(bf_features) :
            TimesAssigned(f) = IF f < bf_i /\ InRange(f) THEN 1 ELSE 0

\* construct fails only at a feature without occupants that is in range
ErrorOnlyWithoutOccupants ==
    (bf_pc = "error") =>
        /\ Len(bf_features[bf_i].island_probes) = 0
        /\ InRange(bf_i)

OneResultWithoutPharmacophore ==
    (eh_pc = "returned" /\ ~eh_pharmacophore) =>
        /\ Len(hrs) = Len(bf_locations)
        /\ \A k \in DOMAIN hrs : hrs[k].identifier = k

\* with pharmacophore=True: every Location's Result twice, in Location order
TwoResultsWithPharmacophore ==
    (eh_pc = "returned" /\ eh_pharmacophore) =>
        /\ Len(hrs) = 2 * Len(bf_locations)
        /\ \A k \in DOMAIN hrs : hrs[k].identifier = (k + 1) \div 2

\* ------------------------------------ more sampler claims (C26 - C28)
HasPolarAtom ==
    \E k \in DOMAIN atoms : atoms[k].is_donor \/ atoms[k].is_acceptor

\* C26: with settings.polar_contributions = False, during a sampling run of
\* a probe molecule with a donor or acceptor atom, the apolar output grid
\* is never modified and stays all zero.
C26_ApolarGridUntouched ==
    (spc # "idle" /\ ~polar_contributions /\ HasPolarAtom)
        => probe_grids["apolar"] = ZeroScores

\* in such a run the apolar output grid has no active atom of its own
ApolarProbeGridInactive ==
    (spc \in {"rotate", "translate", "returned"} /\ ~polar_contributions
     /\ HasPolarAtom)
        => probe_active_atoms["apolar"] = <<>>

\* the translation of the pose the loop is at
current_translation ==
    translate_points[ti]
        - atom_coordinates(AtomById(atoms, priority_atom), orientation)

\* the points the pose puts the active atoms of the grids at
current_points ==
    UNION { { add_coordinates(active_coordinates_dic[name][k], current_translation) :
              k \in 1 .. Len(active_coordinates_dic[name]) } : name \in Range(names) }

\* the score of the pose the loop is at
current_score ==
    sample_pose(names, sample_grids, origin, atoms, current_translation,
                active_coordinates_dic, probe_name)

WritesInsideExtentAligned ==
    (spc = "translate" /\ current_score # PoseError /\ origin % gs = 0
     /\ ~below_min(current_score))
        => written_indices(names, origin, active_coordinates_dic,
                           current_translation) \subseteq Cells

\* a pose that puts an active atom outside the grid scores 0
OutsideScoresZero ==
    (spc = "translate" /\ current_score # PoseError
     /\ \E p \in current_points : p < origin \/ p > far_corner(origin))
        => current_score[1] = 0

\* the places <<rotation, target>> of n rotations and m targets, all the
\* targets of one rotation before the next rotation
all_pairs(n, m) ==
    [k \in 1 .. n * m |-> << ((k - 1) \div m) + 1, ((k - 1) % m) + 1 >>]

\* C28: sample scores every (rotation, translation target) pair exactly
\* once, all the targets of one rotation before the next rotation, and
\* returns after the last rotation: the poses scored are nrotations times
\* the number of translation targets.
C28_EveryPairScoredOnce ==
    /\ spc # "error"
    /\ spc \in {"rotate", "translate", "returned"}
           => \E k \in 0 .. nrotations * Len(translate_points) :
                 scored = SubSeq(all_pairs(nrotations, Len(translate_points)), 1, k)
    /\ Returned => scored = all_pairs(nrotations, Len(translate_points))

\* a run that returns has scored every pair of its quaternions and targets
\* once, in that order
EveryQuaternionPairScoredOnce ==
    Returned => scored = all_pairs(Len(quaternions), Len(translate_points))

\* a run of two or more rotations that returns has scored nrotations times
\* the number of targets
EveryPairFromTwoRotations ==
    (Returned /\ nrotations >= 2)
        => scored = all_pairs(nrotations, Len(translate_points))

\* --------------------------------------------- drug_sized claims (C29)
LargeIslandContainsCentroid ==
    \E k \in DOMAIN ds_islands :
        is_large(ds_islands[k]) /\ contains_point(centroid2(ds_box), ds_islands[k])

\* C29: drug_sized returns True if and only if at least one island of the
\* buriedness grid with volume greater than 300 contains the centroid of
\* the apolar grid's bounding box, whatever the number and order of such
\* islands; otherwise it returns False.
C29_AnyLargeIsland ==
    (ds_pc = "returned") =>
        ds_result = IF LargeIslandContainsCentroid THEN "True" ELSE "False"

\* drug_sized answers for the first large island only, and returns None
\* when there is none
FirstLargeIslandDecides ==
    (ds_pc = "returned") =>
        LET large == get_large_cavity(ds_islands)
        IN ds_result = IF large = <<>> THEN "None"
                       ELSE IF contains_point(centroid2(ds_box), large[1])
                       THEN "True" ELSE "False"

\* True is returned only when a large island contains the centroid
TrueOnlyIfContained ==
    (ds_pc = "returned" /\ ds_result = "True") => LargeIslandContainsCentroid

\* ---------------------------------------- _get_near_score claims (C30)
\* the largest value among the cells read
NeighbourhoodMax ==
    CHOOSE v \in { ns_g[c] : c \in ns_reads } : \A c \in ns_reads : ns_g[c] <= v

ReturnedOutside ==
    ns_result.score = 0 /\ ns_result.at = "outside" /\ ns_reads = {}

ReadsNeighbourhood ==
    /\ ns_reads \subseteq Cells
    /\ ns_reads = near_indices(point_to_indices(ns_coordinates, ns_origin), ns_tolerance)
    /\ Cardinality(ns_reads) = 2 * ns_tolerance + 1

InsideIsRead ==
    (ns_pc = "returned" /\ ns_result.at = "outside") =>
        LET i == point_to_indices(ns_coordinates, ns_origin)
        IN i - ns_tolerance < 0 \/ i + ns_tolerance > NumCells - 1

====
